---- MODULE Spec2Model ----
(***************************************************************************)
(* Model of the ARCS relay server (server/src): the WebSocket connection   *)
(* handler, the session manager, the JWT manager and the device registry.  *)
(*                                                                         *)
(* The WebSocket server runs its handlers on the single thread that calls  *)
(* ws_server_.run() (ConnectionHandler::start), so on_open, on_close and   *)
(* on_message are atomic actions.  Every SessionManager method holds       *)
(* mutex_ from its first to its last statement, so each method is one      *)
(* atomic action as well.                                                  *)
(***************************************************************************)
EXTENDS Integers, Sequences, FiniteSets, TLC

VARIABLES
    connections_,     \* ConnectionHandler::connections_ (hdl_to_id_ mirrors its keys)
    opened,           \* connection ids generated so far by on_open (uuid_generate)
    stuck,            \* the I/O thread is blocked for ever on connections_mutex_
    build,            \* what the build makes of the code's two unspecified points
    sessions_,        \* SessionManager::sessions_
    next_session,     \* number of session ids minted so far, plus one
    closed_ids,       \* history: session ids for which close_session returned true
    registry_set,     \* ConnectionHandler::device_registry_ is not null
    devices_,         \* DeviceRegistry::devices_
    jwt_manager_,     \* ARCSServer::jwt_manager_ (the process-wide JWT manager)
    issued,           \* history: tokens the server has sent in an auth_response
    now,              \* std::chrono::system_clock::now(), in seconds
    sent,             \* frames written by ws_server_.send during the last step
    burst,            \* history: touch frames received since the clock last advanced
    last,             \* history: the last operation, its arguments and its result
    endpoints_,       \* StreamRouter::endpoints_
    delivered,        \* history: the frames get_frame has returned, per controller
    full_calls,       \* history: route_frame calls that met a full queue
    routed,           \* history: route_frame calls since the initial state
    buckets_,         \* RateLimiter::buckets_
    rate_limiter_,    \* CommandRouter::rate_limiter_ is not null
    steady_clock,     \* std::chrono::steady_clock::now(), in milliseconds
    grants,           \* history: the allow calls that returned true, and when
    arrived,          \* history: the command frames on_message has received, in order
    relayed,          \* history: the frames ws_server_.send has written, in order
    registry_log,     \* history: the secrets register_device stored, the ids deactivated
    threads,          \* the threads calling the stream router: call, position, locks held
    client            \* the controller's WebSocketClient and its transport

vars == <<connections_, opened, stuck, build, sessions_, next_session, closed_ids,
          registry_set, devices_, jwt_manager_, issued, now, sent, burst, last,
          endpoints_, delivered, full_calls, routed,
          buckets_, rate_limiter_, steady_clock, grants, arrived, relayed,
          registry_log, threads, client>>

\* The stream router's state, which no handler of the connection handler and no
\* method of the session manager touches.
stream_vars == <<endpoints_, delivered, full_calls, routed>>

\* The rate limiter and the command router's pointer to it, which neither the
\* connection handler nor the session manager nor the stream router holds.
limiter_vars == <<buckets_, rate_limiter_, steady_clock, grants>>

\* The history of the frames relayed between connections.
order_vars == <<arrived, relayed>>

\* The call history of a device registry, the threads inside the stream
\* router, and the controller client, which is another process.
standalone_vars == <<registry_log, threads, client>>

\* The state of the connection handler, the session manager and the JWT manager.
server_vars == <<connections_, opened, stuck, build, sessions_, next_session, closed_ids,
                 registry_set, devices_, jwt_manager_, issued, now, sent, burst, last>>

(***************************************************************************)
(* Bounds of the model.                                                    *)
(***************************************************************************)
MaxConns == 2          \* connections accepted during a run
MaxSessions == 2       \* sessions minted during a run
MaxNowBurst == 1       \* the clock's last value in the touch-burst specification
MaxNow == 452          \* the clock's last value in the session-registry specification
MaxFrames == 4         \* frames routed during a run of the stream specification
MaxControllers == 2    \* entries of one endpoint's controller list
MaxGets == 2           \* frames one controller takes with get_frame
MaxGrants == 3         \* allow calls that return true between two resets
MaxSteady == 2000      \* the steady clock's last value in the rate-limiter specification
MaxPeriods == 2        \* refill periods that pass in the bucket-fill specification
MaxRouterClock == 10   \* the steady clock's last value in the command-router specification
MaxArrived == 4        \* command frames received in the relay-order specification

ConnIds == 1..MaxConns
SessionIds == 1..MaxSessions
DeviceIds == {"dev1", "dev2"}
ThreadIds == {"t1", "t2"}
Secrets == {"sec1", "sec2"}

NoConn == 0            \* the empty string where a connection/controller id is expected
NoSessionId == 0       \* the empty string where a session id is expected
AbsentId == -1         \* JSON field missing, or not a string
Absent == "<absent>"   \* JSON field missing, or not a string

(***************************************************************************)
(* SessionManager (session_manager.h, session_manager.cpp).                *)
(***************************************************************************)
IDLE_TIMEOUT == 300

NullSession == [session_id |-> NoSessionId, device_id |-> "", controller_id |-> NoConn,
                created_at |-> 0, last_activity |-> 0, is_active |-> FALSE]

\* Session::is_expired
is_expired(session, t) == t - session.last_activity > IDLE_TIMEOUT

\* The outcomes of create_session: the session map, the id counter, the id returned.
\* sessions_ is an unordered_map: the loop returns the first match it meets.
create_session_always_mints(S, nxt, device_id, t) ==
    {[sessions |-> S @@ (nxt :> [session_id |-> nxt, device_id |-> device_id,
                                 controller_id |-> NoConn, created_at |-> t,
                                 last_activity |-> t, is_active |-> TRUE]),
      next |-> nxt + 1, id |-> nxt]}

create_session(S, nxt, device_id, t) ==
    LET existing == {id \in DOMAIN S : S[id].device_id = device_id /\ S[id].is_active}
    IN  IF existing # {}
        THEN {[sessions |-> S, next |-> nxt, id |-> id] : id \in existing}
        ELSE {[sessions |-> S @@ (nxt :> [session_id |-> nxt, device_id |-> device_id,
                                          controller_id |-> NoConn, created_at |-> t,
                                          last_activity |-> t, is_active |-> TRUE]),
               next |-> nxt + 1, id |-> nxt]}

join_session(S, session_id, controller_id, t) ==
    IF session_id \notin DOMAIN S
    THEN [sessions |-> S, ok |-> FALSE]
    ELSE IF ~S[session_id].is_active
    THEN [sessions |-> S, ok |-> FALSE]
    ELSE [sessions |-> [S EXCEPT ![session_id].controller_id = controller_id,
                                 ![session_id].last_activity = t],
          ok |-> TRUE]

get_session(S, session_id) ==
    IF session_id \in DOMAIN S THEN S[session_id] ELSE NullSession

update_activity(S, session_id, t) ==
    IF session_id \in DOMAIN S
    THEN [S EXCEPT ![session_id].last_activity = t]
    ELSE S

close_session_keeps_entry(S, session_id) ==
    IF session_id \in DOMAIN S
    THEN [sessions |-> [S EXCEPT ![session_id].is_active = FALSE], ok |-> TRUE]
    ELSE [sessions |-> S, ok |-> FALSE]

close_session(S, session_id) ==
    IF session_id \in DOMAIN S
    THEN [sessions |-> [id \in DOMAIN S \ {session_id} |-> S[id]], ok |-> TRUE]
    ELSE [sessions |-> S, ok |-> FALSE]

\* The sessions a scan of the unordered_map can return (the first match it meets).
get_session_by_device(S, device_id) ==
    LET found == {S[id] : id \in {i \in DOMAIN S :
                                    S[i].device_id = device_id /\ S[i].is_active}}
    IN  IF found # {} THEN found ELSE {NullSession}

get_session_by_controller(S, controller_id) ==
    LET found == {S[id] : id \in {i \in DOMAIN S :
                                    S[i].controller_id = controller_id /\ S[i].is_active}}
    IN  IF found # {} THEN found ELSE {NullSession}

get_active_count(S) == Cardinality({id \in DOMAIN S : S[id].is_active})

cleanup_expired_from_timeout(S, t) ==
    [id \in {i \in DOMAIN S : t - S[i].last_activity < IDLE_TIMEOUT} |-> S[id]]

cleanup_expired(S, t) ==
    [id \in {i \in DOMAIN S : ~is_expired(S[i], t)} |-> S[id]]


(***************************************************************************)
(* JWTManager (jwt_manager.h, jwt_manager.cpp).  A token is the record of  *)
(* its claims plus sig, the key its HS256 signature was made with: the     *)
(* signature verifies under a manager iff sig is that manager's secret_.   *)
(***************************************************************************)
ISSUER == "arcs-server"

JWTManager(secret, expiry_hours) ==
    [secret_ |-> secret, expiry_hours_ |-> expiry_hours, revoked_tokens_ |-> {}]

\* The token carries no permissions claim: the argument is not used.
generate_token(mgr, device_id, session_id, permissions, t) ==
    [iss |-> ISSUER, sub |-> device_id, iat |-> t,
     exp |-> t + mgr.expiry_hours_ * 3600,
     session_id |-> session_id, device_id |-> device_id, sig |-> mgr.secret_]

\* What a client can put in the jwt_token field besides a token it was given.
ForgedToken == [iss |-> ISSUER, sub |-> "dev1", iat |-> 0, exp |-> 24 * 3600,
                session_id |-> NoSessionId, device_id |-> "dev1", sig |-> "attacker_key"]
GarbageToken == [iss |-> "", sub |-> "", iat |-> 0, exp |-> 0,
                 session_id |-> NoSessionId, device_id |-> "", sig |-> "<not a jwt>"]
AbsentToken == [iss |-> "", sub |-> "", iat |-> 0, exp |-> 0,
                session_id |-> NoSessionId, device_id |-> "", sig |-> Absent]

NullPayload == [valid |-> FALSE, device_id |-> "", session_id |-> NoSessionId,
                issued_at |-> 0, expires_at |-> 0]

is_revoked(mgr, token) == token \in mgr.revoked_tokens_

revoke_token(mgr, token) ==
    [mgr EXCEPT !.revoked_tokens_ = mgr.revoked_tokens_ \cup {token}]

\* jwt::decode throws on a string that is not a JWT; verifier.verify throws on a
\* bad signature or issuer; each exception is caught and gives nullopt.
validate_token(mgr, token, t) ==
    IF is_revoked(mgr, token) THEN NullPayload
    ELSE IF token.sig \in {GarbageToken.sig, AbsentToken.sig} THEN NullPayload
    ELSE IF token.sig # mgr.secret_ \/ token.iss # ISSUER THEN NullPayload
    ELSE IF t > token.exp THEN NullPayload
    ELSE [valid |-> TRUE, device_id |-> token.device_id, session_id |-> token.session_id,
          issued_at |-> token.iat, expires_at |-> token.exp]

is_expired_token(token, t) ==
    IF token.sig \in {GarbageToken.sig, AbsentToken.sig} THEN TRUE ELSE t > token.exp

(***************************************************************************)
(* DeviceRegistry (device_registry.cpp).                                   *)
(***************************************************************************)
\* register_device that takes the place of an entry that was deactivated.
registry_register_device_again(D, device_id, device_secret, device_model, t) ==
    IF device_id \in DOMAIN D /\ D[device_id].is_active
    THEN [devices |-> D, ret |-> FALSE]
    ELSE [devices |-> [d \in DOMAIN D \cup {device_id} |->
                          IF d = device_id
                          THEN [device_id |-> device_id, device_secret |-> device_secret,
                                device_model |-> device_model, registered_at |-> t,
                                is_active |-> TRUE]
                          ELSE D[d]],
          ret |-> TRUE]

\* DeviceRegistry::register_device (the stream router has a register_device
\* of its own).
registry_register_device(D, device_id, device_secret, device_model, t) ==
    IF device_id \in DOMAIN D
    THEN [devices |-> D, ret |-> FALSE]
    ELSE [devices |-> [d \in DOMAIN D \cup {device_id} |->
                          IF d = device_id
                          THEN [device_id |-> device_id, device_secret |-> device_secret,
                                device_model |-> device_model, registered_at |-> t,
                                is_active |-> TRUE]
                          ELSE D[d]],
          ret |-> TRUE]

\* The empty std::optional<DeviceEntry>.
NoDevice == [has_value |-> FALSE]

get_device(D, device_id) ==
    IF device_id \in DOMAIN D
    THEN [has_value |-> TRUE, entry |-> D[device_id]]
    ELSE NoDevice

\* deactivate_device that erases the entry.
deactivate_device_erasing(D, device_id) ==
    IF device_id \in DOMAIN D
    THEN [devices |-> [d \in DOMAIN D \ {device_id} |-> D[d]], ret |-> TRUE]
    ELSE [devices |-> D, ret |-> FALSE]

deactivate_device(D, device_id) ==
    IF device_id \in DOMAIN D
    THEN [devices |-> [D EXCEPT ![device_id].is_active = FALSE], ret |-> TRUE]
    ELSE [devices |-> D, ret |-> FALSE]

\* authenticate that does not look at is_active.
authenticate_inactive_too(D, device_id, device_secret) ==
    IF device_id \notin DOMAIN D
    THEN FALSE
    ELSE D[device_id].device_secret = device_secret

authenticate(D, device_id, device_secret) ==
    IF device_id \notin DOMAIN D
    THEN FALSE
    ELSE D[device_id].is_active /\ D[device_id].device_secret = device_secret

(***************************************************************************)
(* MessageParser (message_parser.cpp).  A text frame is the record of the  *)
(* fields of its JSON object; a frame that is not JSON has the one field   *)
(* raw.  A field that is missing or not a string reads as Absent.          *)
(***************************************************************************)
parse_ok(frame) == "raw" \notin DOMAIN frame

string_to_type(type_str) ==
    CASE type_str = "auth_request"  -> "AUTH_REQUEST"
      [] type_str = "auth_response" -> "AUTH_RESPONSE"
      [] type_str = "join_session"  -> "JOIN_SESSION"
      [] type_str = "join_response" -> "JOIN_RESPONSE"
      [] type_str = "touch"         -> "TOUCH"
      [] type_str = "key"           -> "KEY"
      [] type_str = "system"        -> "SYSTEM"
      [] type_str = "app_control"   -> "APP_CONTROL"
      [] type_str = "macro"         -> "MACRO"
      [] type_str = "ai"            -> "AI"
      [] type_str = "ping"          -> "PING"
      [] type_str = "pong"          -> "PONG"
      [] type_str = "status"        -> "STATUS"
      [] type_str = "error"         -> "ERROR"
      [] OTHER                      -> "UNKNOWN"

\* Every exception (parse error, type that is not a string) is swallowed.
get_message_type(frame) ==
    IF ~parse_ok(frame) THEN "UNKNOWN"
    ELSE IF "type" \notin DOMAIN frame THEN "UNKNOWN"
    ELSE IF frame.type = Absent THEN "UNKNOWN"
    ELSE string_to_type(frame.type)

create_error(code, message) == [type |-> "error", code |-> code, message |-> message]

create_auth_response(success, session_id, jwt_token, expires_at, t) ==
    [type |-> "auth_response", success |-> success, session_id |-> session_id,
     jwt_token |-> jwt_token, expires_at |-> expires_at, server_time |-> t]

create_join_response(success, device_info, video_config) ==
    [type |-> "join_response", success |-> success, device_info |-> device_info,
     video_config |-> video_config]

create_pong(t) == [type |-> "pong", timestamp |-> t]


(***************************************************************************)
(* ConnectionHandler (connection_handler.h, connection_handler.cpp).       *)
(* connections_ is a std::map keyed by connection id: loops over it visit  *)
(* the connections in increasing id order.                                 *)
(***************************************************************************)
\* on_open: make_shared<ConnectionInfo>() value-initializes the record.
NewConnection(connection_id, t) ==
    [connection_id |-> connection_id, session_id |-> NoSessionId, user_id |-> "",
     is_device |-> FALSE, authenticated |-> FALSE, connected_at |-> t]

Min(set) == CHOOSE m \in set : \A n \in set : m <= n

\* The frames ws_server_.send writes, in order: <<[to, msg], ...>>.
send(C, connection_id, message) ==
    IF connection_id \in DOMAIN C
    THEN <<[to |-> connection_id, msg |-> message]>>
    ELSE <<>>

send_to_device(C, session_id, message) ==
    LET match == {id \in DOMAIN C : C[id].session_id = session_id /\ C[id].is_device}
    IN  IF match = {} THEN <<>> ELSE <<[to |-> Min(match), msg |-> message]>>

send_to_controller(C, session_id, message) ==
    LET match == {id \in DOMAIN C : C[id].session_id = session_id /\ ~C[id].is_device}
    IN  IF match = {} THEN <<>> ELSE <<[to |-> Min(match), msg |-> message]>>

\* What a handler leaves behind: the two registries, the frames sent, the tokens
\* handed out, whether the thread is blocked, and how the handler ended.
Outcome(C, S, nxt, out, tokens, blocked, ret) ==
    [connections |-> C, sessions |-> S, next |-> nxt, sent |-> out,
     tokens |-> tokens, stuck |-> blocked, ret |-> ret]

\* handle_auth_request.  msg["device_id"] and msg["secret"] throw a json type_error
\* when the field is missing or not a string.  The call generate_token(device_id)
\* names no session id: a build puts the empty string or the session's id in the
\* session_id claim (claim_mode).
ClaimModes == {"empty", "session"}

\* handle_auth_request that creates the session before it checks the credentials.
handle_auth_request_eager(C, S, nxt, reg_set, D, connection_id, frame, t, claim_mode) ==
    IF frame.device_id = Absent \/ frame.secret = Absent
    THEN {Outcome(C, S, nxt, <<>>, {}, FALSE, "exception")}
    ELSE IF reg_set /\ ~authenticate(D, frame.device_id, frame.secret)
    THEN {Outcome(C, r.sessions, r.next,
                  send(C, connection_id,
                       create_error("ERR_AUTH_FAILED", "Invalid device credentials")),
                  {}, FALSE, "ERR_AUTH_FAILED")
          : r \in create_session(S, nxt, frame.device_id, t)}
    ELSE {LET claim == IF claim_mode = "session" THEN r.id ELSE NoSessionId
              jwt_token == generate_token(JWTManager("secret_key", 24),
                                          frame.device_id, claim, {}, t)
              C2 == IF connection_id \in DOMAIN C
                    THEN [C EXCEPT ![connection_id].session_id = r.id,
                                   ![connection_id].user_id = frame.device_id,
                                   ![connection_id].is_device = TRUE,
                                   ![connection_id].authenticated = TRUE]
                    ELSE C
          IN  Outcome(C2, r.sessions, r.next,
                      send(C2, connection_id,
                           create_auth_response(TRUE, r.id, jwt_token, t + 3600000, t)),
                      {jwt_token}, FALSE, "auth_response")
          : r \in create_session(S, nxt, frame.device_id, t)}

handle_auth_request(C, S, nxt, reg_set, D, connection_id, frame, t, claim_mode) ==
    IF frame.device_id = Absent \/ frame.secret = Absent
    THEN {Outcome(C, S, nxt, <<>>, {}, FALSE, "exception")}
    ELSE IF reg_set /\ ~authenticate(D, frame.device_id, frame.secret)
    THEN {Outcome(C, S, nxt,
                  send(C, connection_id,
                       create_error("ERR_AUTH_FAILED", "Invalid device credentials")),
                  {}, FALSE, "ERR_AUTH_FAILED")}
    ELSE {LET claim == IF claim_mode = "session" THEN r.id ELSE NoSessionId
              jwt_token == generate_token(JWTManager("secret_key", 24),
                                          frame.device_id, claim, {}, t)
              C2 == IF connection_id \in DOMAIN C
                    THEN [C EXCEPT ![connection_id].session_id = r.id,
                                   ![connection_id].user_id = frame.device_id,
                                   ![connection_id].is_device = TRUE,
                                   ![connection_id].authenticated = TRUE]
                    ELSE C
          IN  Outcome(C2, r.sessions, r.next,
                      send(C2, connection_id,
                           create_auth_response(TRUE, r.id, jwt_token, t + 3600000, t)),
                      {jwt_token}, FALSE, "auth_response")
          : r \in create_session(S, nxt, frame.device_id, t)}

\* handle_join_session.  The token is checked by a JWTManager made on the spot.
handle_join_session(C, S, nxt, connection_id, frame, t) ==
    IF frame.session_id = AbsentId \/ frame.jwt_token = AbsentToken
    THEN Outcome(C, S, nxt, <<>>, {}, FALSE, "exception")
    ELSE IF ~validate_token(JWTManager("secret_key", 24), frame.jwt_token, t).valid
    THEN Outcome(C, S, nxt,
                 send(C, connection_id,
                      create_error("INVALID_TOKEN", "JWT validation failed")),
                 {}, FALSE, "INVALID_TOKEN")
    ELSE LET controller_id == connection_id
             j == join_session(S, frame.session_id, controller_id, t)
         IN  IF ~j.ok
             THEN Outcome(C, S, nxt,
                          send(C, connection_id,
                               create_error("SESSION_NOT_FOUND", "Session does not exist")),
                          {}, FALSE, "SESSION_NOT_FOUND")
             ELSE LET C2 == IF connection_id \in DOMAIN C
                            THEN [C EXCEPT ![connection_id].session_id = frame.session_id,
                                           ![connection_id].user_id = ToString(controller_id),
                                           ![connection_id].is_device = FALSE,
                                           ![connection_id].authenticated = TRUE]
                            ELSE C
                      device_info == [device_id |-> "device_123", model |-> "Pixel 6",
                                      android_version |-> "13"]
                      video_config == [width |-> 1080, height |-> 2400, codec |-> "h264"]
                  IN  Outcome(C2, j.sessions, nxt,
                              send(C2, connection_id,
                                   create_join_response(TRUE, device_info, video_config)),
                              {}, FALSE, "join_response")

\* handle_command holds connections_mutex_ (a std::mutex) while it calls send,
\* send_to_controller or send_to_device, each of which locks the same mutex on the
\* same thread.  Locking a std::mutex the thread already owns is undefined: in a
\* given build the thread blocks for ever, or lock() throws std::system_error, or
\* (mutex operations that do nothing) the call goes on.
RelockOutcomes == {"deadlock", "throw", "proceed"}

handle_command(C, S, nxt, connection_id, frame, relock) ==
    LET out == IF connection_id \notin DOMAIN C \/ ~C[connection_id].authenticated
               THEN send(C, connection_id, create_error("UNAUTHORIZED", "Not authenticated"))
               ELSE IF C[connection_id].is_device
               THEN send_to_controller(C, C[connection_id].session_id, frame)
               ELSE send_to_device(C, C[connection_id].session_id, frame)
        ret == IF connection_id \notin DOMAIN C \/ ~C[connection_id].authenticated
               THEN "UNAUTHORIZED" ELSE "routed"
    IN  CASE relock = "deadlock" -> Outcome(C, S, nxt, <<>>, {}, TRUE, "deadlock")
          [] relock = "throw"    -> Outcome(C, S, nxt, <<>>, {}, FALSE, "exception")
          [] relock = "proceed"  -> Outcome(C, S, nxt, out, {}, FALSE, ret)

\* on_message: dispatch on the message type; an exception that leaves a handler is
\* answered with INVALID_MESSAGE.
on_message(C, S, nxt, reg_set, D, connection_id, frame, t, relock, claim_mode) ==
    LET msg_type == get_message_type(frame)
        done == CASE msg_type = "AUTH_REQUEST" ->
                       handle_auth_request(C, S, nxt, reg_set, D, connection_id, frame, t,
                                           claim_mode)
                  [] msg_type = "JOIN_SESSION" ->
                       {handle_join_session(C, S, nxt, connection_id, frame, t)}
                  [] msg_type = "PING" ->
                       {Outcome(C, S, nxt, send(C, connection_id, create_pong(t)),
                                {}, FALSE, "pong")}
                  [] OTHER ->
                       {handle_command(C, S, nxt, connection_id, frame, relock)}
    IN  {IF o.ret = "exception"
         THEN [o EXCEPT !.sent = send(C, connection_id,
                                      create_error("INVALID_MESSAGE", "exception"))]
         ELSE o : o \in done}

\* on_close: the session of an authenticated connection is closed, whatever its role.
on_close(C, S, connection_id) ==
    LET closing == connection_id \in DOMAIN C /\ C[connection_id].authenticated
        r == IF closing THEN close_session(S, C[connection_id].session_id)
             ELSE [sessions |-> S, ok |-> FALSE]
    IN  [connections |-> [id \in DOMAIN C \ {connection_id} |-> C[id]],
         sessions |-> r.sessions,
         closed |-> IF r.ok THEN {C[connection_id].session_id} ELSE {}]

(***************************************************************************)
(* The frames clients send.                                                *)
(***************************************************************************)
NoFrame == [type |-> "<none>"]
TouchTap == [type |-> "touch", action |-> "tap", x |-> 100, y |-> 200]
StatusFrame == [type |-> "status", battery |-> 80]
MalformedFrame == [raw |-> "{not json"]
PingFrame == [type |-> "ping"]

\* dev1 and dev2 with their secrets, dev1 with a wrong secret, and no device_id.
AuthFrames ==
    {[type |-> "auth_request", device_id |-> "dev1", secret |-> "sec1"],
     [type |-> "auth_request", device_id |-> "dev2", secret |-> "sec2"],
     [type |-> "auth_request", device_id |-> "dev1", secret |-> "sec2"],
     [type |-> "auth_request", device_id |-> Absent, secret |-> "sec1"]}

\* Any session id with any token the server has handed out or a forged one, and
\* requests that lack one of the two fields.
JoinFrames ==
    {[type |-> "join_session", session_id |-> sid, jwt_token |-> tok] :
        sid \in SessionIds, tok \in issued \cup {ForgedToken}}
    \cup {[type |-> "join_session", session_id |-> AbsentId, jwt_token |-> ForgedToken],
          [type |-> "join_session", session_id |-> 1, jwt_token |-> AbsentToken]}

CommandFrames == {TouchTap, StatusFrame, MalformedFrame}

(***************************************************************************)
(* The end-to-end specification: clients open connections, send text       *)
(* frames and close; the process-wide JWT manager revokes tokens.          *)
(***************************************************************************)
DefaultDevices ==
    [d \in DeviceIds |->
        [device_id |-> d, device_secret |-> IF d = "dev1" THEN "sec1" ELSE "sec2",
         device_model |-> "Pixel", registered_at |-> 0, is_active |-> TRUE]]

\* No rate limiter has been built or handed to the command router.
InitLimiter ==
    /\ buckets_ = <<>>
    /\ rate_limiter_ = FALSE
    /\ steady_clock = 0
    /\ grants = <<>>

\* A thread that is not inside a method of the stream router.
IdleThread ==
    [op |-> "none", session_id |-> NoSessionId, controller_id |-> NoConn,
     pc |-> "idle", holds |-> <<>>, calls |-> 0]

\* The controller client after its constructor: not connected, no session id,
\* no token (no method of the class assigns jwtToken_); the transport is not
\* open, nothing has been written to it and no signal has been emitted.
WebSocketClient ==
    [isConnected_ |-> FALSE, sessionId_ |-> "", jwtToken_ |-> "",
     transport |-> "none", written |-> <<>>, signals |-> {}]

\* No device has been registered on a registry of its own, no thread is inside
\* the stream router, and the controller client has been constructed only.
InitStandalone ==
    /\ registry_log = [stored |-> [d \in DeviceIds |-> <<>>], deactivated |-> {}]
    /\ threads = [t \in ThreadIds |-> IdleThread]
    /\ client = WebSocketClient

InitOrder ==
    /\ arrived = <<>>
    /\ relayed = <<>>

InitServer ==
    /\ connections_ = <<>>
    /\ opened = {}
    /\ stuck = FALSE
    /\ sessions_ = <<>>
    /\ next_session = 1
    /\ closed_ids = {}
    /\ devices_ = DefaultDevices
    /\ jwt_manager_ = JWTManager("your-secret-key-change-me", 24)
    /\ issued = {}
    /\ now = 0
    /\ sent = <<>>
    /\ burst = 0
    /\ last = [op |-> "init", conn |-> NoConn, arg |-> NoFrame, ret |-> ""]

InitCommon ==
    /\ InitServer
    /\ endpoints_ = <<>>
    /\ delivered = [c \in ConnIds |-> <<>>]
    /\ full_calls = 0
    /\ routed = 0
    /\ InitLimiter
    /\ InitOrder
    /\ InitStandalone

\* The registry is configured (the server configuration always sets one).
Init ==
    /\ InitCommon
    /\ build \in [relock : RelockOutcomes, claim : ClaimModes]
    /\ registry_set = TRUE

OnOpen ==
    /\ ~stuck
    /\ \E id \in ConnIds \ opened :
        /\ connections_' = connections_ @@ (id :> NewConnection(id, now))
        /\ opened' = opened \cup {id}
        /\ last' = [op |-> "on_open", conn |-> id, arg |-> NoFrame, ret |-> "opened"]
    /\ sent' = <<>>
    /\ UNCHANGED <<stream_vars, limiter_vars, order_vars, standalone_vars>>
    /\ UNCHANGED <<stuck, build, sessions_, next_session, closed_ids, registry_set, devices_,
                   jwt_manager_, issued, now, burst>>

OnClose(c) ==
    /\ ~stuck
    /\ c \in DOMAIN connections_
    /\ LET r == on_close(connections_, sessions_, c)
       IN  /\ connections_' = r.connections
           /\ sessions_' = r.sessions
           /\ closed_ids' = closed_ids \cup r.closed
    /\ sent' = <<>>
    /\ last' = [op |-> "on_close", conn |-> c, arg |-> NoFrame, ret |-> "closed"]
    /\ UNCHANGED <<stream_vars, limiter_vars, order_vars, standalone_vars>>
    /\ UNCHANGED <<opened, stuck, build, next_session, registry_set, devices_, jwt_manager_,
                   issued, now, burst>>

\* One text frame handled from its arrival to the handler's return.
Receive(c, frame) ==
    /\ ~stuck
    /\ c \in DOMAIN connections_
    /\ \E o \in on_message(connections_, sessions_, next_session, registry_set, devices_,
                           c, frame, now, build.relock, build.claim) :
        /\ o.next <= MaxSessions + 1
        /\ connections_' = o.connections
        /\ sessions_' = o.sessions
        /\ next_session' = o.next
        /\ issued' = issued \cup o.tokens
        /\ stuck' = o.stuck
        /\ sent' = o.sent
        /\ last' = [op |-> "on_message", conn |-> c, arg |-> frame, ret |-> o.ret]
    /\ UNCHANGED <<stream_vars, limiter_vars, standalone_vars>>
    /\ UNCHANGED <<opened, build, closed_ids, registry_set, devices_, jwt_manager_, now>>

OnMessage(c, frame) == Receive(c, frame) /\ UNCHANGED <<burst, order_vars>>

\* The four arms of on_message's switch on the frame's type.
OnAuthRequest ==
    \E c \in ConnIds : \E frame \in AuthFrames :
        /\ get_message_type(frame) = "AUTH_REQUEST"
        /\ OnMessage(c, frame)

OnJoinSession ==
    \E c \in ConnIds : \E frame \in JoinFrames :
        /\ get_message_type(frame) = "JOIN_SESSION"
        /\ OnMessage(c, frame)

OnPing ==
    \E c \in ConnIds :
        /\ get_message_type(PingFrame) = "PING"
        /\ OnMessage(c, PingFrame)

OnCommand ==
    \E c \in ConnIds : \E frame \in CommandFrames :
        /\ get_message_type(frame) \notin {"AUTH_REQUEST", "JOIN_SESSION", "PING"}
        /\ OnMessage(c, frame)

\* JWTManager::revoke_token on the process-wide manager.
RevokeToken ==
    /\ \E tok \in issued :
        /\ jwt_manager_' = revoke_token(jwt_manager_, tok)
        /\ last' = [op |-> "revoke_token", conn |-> NoConn,
                    arg |-> [jwt_token |-> tok], ret |-> "revoked"]
    /\ sent' = <<>>
    /\ UNCHANGED <<stream_vars, limiter_vars, order_vars, standalone_vars>>
    /\ UNCHANGED <<connections_, opened, stuck, build, sessions_, next_session, closed_ids,
                   registry_set, devices_, issued, now, burst>>

\* The clock advances.
Advance(steps, cap) ==
    /\ \E d \in steps : now + d <= cap /\ now' = now + d
    /\ UNCHANGED <<stream_vars, limiter_vars, order_vars, standalone_vars>>
    /\ UNCHANGED <<connections_, opened, stuck, build, sessions_, next_session, closed_ids,
                   registry_set, devices_, jwt_manager_, issued, sent, last>>

Next ==
    \/ OnOpen
    \/ \E c \in ConnIds : OnClose(c)
    \/ OnAuthRequest
    \/ OnJoinSession
    \/ OnPing
    \/ OnCommand

Spec == Init /\ [][Next]_vars

\* The same, with tokens revoked on the process-wide JWT manager.
NextRevoke ==
    \/ Next
    \/ RevokeToken

SpecRevoke == Init /\ [][NextRevoke]_vars

(***************************************************************************)
(* The touch-burst specification: a device has authenticated on connection *)
(* 1, a controller has joined its session on connection 2, and the         *)
(* controller sends touch commands.                                        *)
(***************************************************************************)
TOUCH_MAX == 100

\* The one outcome of a handler that has one.
Only(outcomes) == CHOOSE o \in outcomes : TRUE

InitBurst ==
    /\ build \in [relock : RelockOutcomes, claim : ClaimModes]
    /\ registry_set = TRUE
    /\ devices_ = DefaultDevices
    /\ jwt_manager_ = JWTManager("your-secret-key-change-me", 24)
    /\ now = 0
    /\ opened = {1, 2}
    /\ stuck = FALSE
    /\ closed_ids = {}
    /\ burst = 0
    /\ endpoints_ = <<>>
    /\ delivered = [c \in ConnIds |-> <<>>]
    /\ full_calls = 0
    /\ routed = 0
    /\ InitLimiter
    /\ InitOrder
    /\ InitStandalone
    /\ LET C0 == (1 :> NewConnection(1, 0)) @@ (2 :> NewConnection(2, 0))
           a == Only(on_message(C0, <<>>, 1, TRUE, DefaultDevices, 1,
                                [type |-> "auth_request", device_id |-> "dev1",
                                 secret |-> "sec1"],
                                0, build.relock, build.claim))
           tok == Only(a.tokens)
           frame == [type |-> "join_session", session_id |-> 1, jwt_token |-> tok]
           j == Only(on_message(a.connections, a.sessions, a.next, TRUE, DefaultDevices,
                                2, frame, 0, build.relock, build.claim))
       IN  /\ connections_ = j.connections
           /\ sessions_ = j.sessions
           /\ next_session = j.next
           /\ issued = a.tokens
           /\ sent = j.sent
           /\ last = [op |-> "on_message", conn |-> 2, arg |-> frame, ret |-> j.ret]

\* The controller sends one more touch command.
TouchBurst ==
    /\ burst <= TOUCH_MAX
    /\ Receive(2, TouchTap)
    /\ burst' = burst + 1
    /\ UNCHANGED <<order_vars, standalone_vars>>

TickBurst ==
    /\ Advance({1}, MaxNowBurst)
    /\ burst' = 0

NextBurst ==
    \/ TouchBurst
    \/ TickBurst

SpecBurst == InitBurst /\ [][NextBurst]_vars


(***************************************************************************)
(* The session-registry specification: the methods of SessionManager,      *)
(* called in any order with any arguments, while the clock advances.       *)
(***************************************************************************)
InitSessions ==
    /\ InitCommon
    /\ build = [relock |-> "deadlock", claim |-> "session"]
    /\ registry_set = TRUE

Truth(b) == IF b THEN "true" ELSE "false"

CreateSession(d) ==
    /\ \E r \in create_session(sessions_, next_session, d, now) :
        /\ r.next <= MaxSessions + 1
        /\ sessions_' = r.sessions
        /\ next_session' = r.next
        /\ last' = [op |-> "create_session", conn |-> NoConn,
                    arg |-> [device_id |-> d, session_id |-> r.id],
                    ret |-> IF r.next = next_session THEN "existing" ELSE "minted"]
    /\ UNCHANGED <<stream_vars, limiter_vars, order_vars, standalone_vars>>
    /\ UNCHANGED <<connections_, opened, stuck, build, closed_ids, registry_set, devices_,
                   jwt_manager_, issued, now, sent, burst>>

JoinSession(s, c) ==
    /\ LET r == join_session(sessions_, s, c, now)
       IN  /\ sessions_' = r.sessions
           /\ last' = [op |-> "join_session", conn |-> c,
                       arg |-> [session_id |-> s], ret |-> Truth(r.ok)]
    /\ UNCHANGED <<stream_vars, limiter_vars, order_vars, standalone_vars>>
    /\ UNCHANGED <<connections_, opened, stuck, build, next_session, closed_ids,
                   registry_set, devices_, jwt_manager_, issued, now, sent, burst>>

UpdateActivity(s) ==
    /\ sessions_' = update_activity(sessions_, s, now)
    /\ last' = [op |-> "update_activity", conn |-> NoConn,
                arg |-> [session_id |-> s], ret |-> ""]
    /\ UNCHANGED <<stream_vars, limiter_vars, order_vars, standalone_vars>>
    /\ UNCHANGED <<connections_, opened, stuck, build, next_session, closed_ids,
                   registry_set, devices_, jwt_manager_, issued, now, sent, burst>>

CloseSession(s) ==
    /\ LET r == close_session(sessions_, s)
       IN  /\ sessions_' = r.sessions
           /\ closed_ids' = IF r.ok THEN closed_ids \cup {s} ELSE closed_ids
           /\ last' = [op |-> "close_session", conn |-> NoConn,
                       arg |-> [session_id |-> s], ret |-> Truth(r.ok)]
    /\ UNCHANGED <<stream_vars, limiter_vars, order_vars, standalone_vars>>
    /\ UNCHANGED <<connections_, opened, stuck, build, next_session, registry_set,
                   devices_, jwt_manager_, issued, now, sent, burst>>

CleanupExpired ==
    /\ sessions_' = cleanup_expired(sessions_, now)
    /\ last' = [op |-> "cleanup_expired", conn |-> NoConn, arg |-> NoFrame, ret |-> ""]
    /\ UNCHANGED <<stream_vars, limiter_vars, order_vars, standalone_vars>>
    /\ UNCHANGED <<connections_, opened, stuck, build, next_session, closed_ids,
                   registry_set, devices_, jwt_manager_, issued, now, sent, burst>>

TickSessions ==
    /\ Advance({150, 151}, MaxNow)
    /\ UNCHANGED burst

NextSessions ==
    \/ \E d \in DeviceIds : CreateSession(d)
    \/ \E s \in SessionIds, c \in ConnIds : JoinSession(s, c)
    \/ \E s \in SessionIds : UpdateActivity(s)
    \/ \E s \in SessionIds : CloseSession(s)
    \/ CleanupExpired
    \/ TickSessions

SpecSessions == InitSessions /\ [][NextSessions]_vars

(***************************************************************************)
(* StreamRouter (stream_router.h, stream_router.cpp).  Every method holds  *)
(* mutex_ from its first to its last statement, so each is one atomic      *)
(* action.  A frame is the sequence of its bytes.  Stats::avg_frame_size   *)
(* is total_bytes / total_frames and is not kept apart.                    *)
(***************************************************************************)
MAX_QUEUE_SIZE == 30

NoData == <<>>

register_device(E, session_id, device_id) ==
    IF session_id \in DOMAIN E
    THEN E
    ELSE E @@ (session_id :>
                [session_id |-> session_id, device_id |-> device_id,
                 controller_ids |-> <<>>, frame_queues |-> <<>>,
                 stats |-> [total_frames |-> 0, total_bytes |-> 0, dropped_frames |-> 0]])

\* queues[controller_id] = queue, which inserts the key when it is missing.
assign(queues, controller_id, queue) ==
    IF controller_id \in DOMAIN queues
    THEN [queues EXCEPT ![controller_id] = queue]
    ELSE queues @@ (controller_id :> queue)

\* push_back on the controller list, and a fresh queue under the controller's key.
register_controller(E, session_id, controller_id) ==
    IF session_id \notin DOMAIN E
    THEN E
    ELSE [E EXCEPT ![session_id].controller_ids = Append(@, controller_id),
                   ![session_id].frame_queues = assign(@, controller_id, <<>>)]

\* The loop of route_frame over the entries ids of the controller list.
RECURSIVE fan_out_unbounded(_, _, _)
fan_out_unbounded(ep, ids, frame) ==
    IF ids = <<>>
    THEN ep
    ELSE LET c == Head(ids)
             queue == IF c \in DOMAIN ep.frame_queues THEN ep.frame_queues[c] ELSE <<>>
         IN  fan_out_unbounded(
                 [ep EXCEPT !.frame_queues = assign(@, c, Append(queue, frame))],
                 Tail(ids), frame)

RECURSIVE fan_out_drop_uncounted(_, _, _)
fan_out_drop_uncounted(ep, ids, frame) ==
    IF ids = <<>>
    THEN ep
    ELSE LET c == Head(ids)
             queue == IF c \in DOMAIN ep.frame_queues THEN ep.frame_queues[c] ELSE <<>>
             kept == IF Len(queue) >= MAX_QUEUE_SIZE THEN Tail(queue) ELSE queue
         IN  fan_out_drop_uncounted(
                 [ep EXCEPT !.frame_queues = assign(@, c, Append(kept, frame))],
                 Tail(ids), frame)

RECURSIVE fan_out(_, _, _)
fan_out(ep, ids, frame) ==
    IF ids = <<>>
    THEN ep
    ELSE LET c == Head(ids)
             queue == IF c \in DOMAIN ep.frame_queues THEN ep.frame_queues[c] ELSE <<>>
             full == Len(queue) >= MAX_QUEUE_SIZE
             kept == IF full THEN Tail(queue) ELSE queue
         IN  fan_out([ep EXCEPT !.frame_queues = assign(@, c, Append(kept, frame)),
                                !.stats.dropped_frames = IF full THEN @ + 1 ELSE @],
                     Tail(ids), frame)

route_frame(E, session_id, data) ==
    IF session_id \notin DOMAIN E
    THEN E
    ELSE LET counted == [E[session_id] EXCEPT !.stats.total_frames = @ + 1,
                                              !.stats.total_bytes = @ + Len(data)]
         IN  [E EXCEPT ![session_id] = fan_out(counted, counted.controller_ids, data)]

get_frame(E, session_id, controller_id) ==
    IF session_id \notin DOMAIN E
    THEN [endpoints |-> E, ok |-> FALSE, out_data |-> NoData]
    ELSE IF controller_id \notin DOMAIN E[session_id].frame_queues
    THEN [endpoints |-> E, ok |-> FALSE, out_data |-> NoData]
    ELSE IF E[session_id].frame_queues[controller_id] = <<>>
    THEN [endpoints |-> E, ok |-> FALSE, out_data |-> NoData]
    ELSE [endpoints |-> [E EXCEPT ![session_id].frame_queues[controller_id] = Tail(@)],
          ok |-> TRUE,
          out_data |-> Head(E[session_id].frame_queues[controller_id])]

unregister_device(E, session_id) ==
    [s \in DOMAIN E \ {session_id} |-> E[s]]

\* std::remove erases every entry equal to controller_id.
RECURSIVE remove(_, _)
remove(ids, controller_id) ==
    IF ids = <<>> THEN <<>>
    ELSE IF Head(ids) = controller_id THEN remove(Tail(ids), controller_id)
    ELSE <<Head(ids)>> \o remove(Tail(ids), controller_id)

unregister_controller_keeps_queue(E, session_id, controller_id) ==
    IF session_id \notin DOMAIN E
    THEN E
    ELSE [E EXCEPT ![session_id].controller_ids = remove(@, controller_id)]

unregister_controller(E, session_id, controller_id) ==
    IF session_id \notin DOMAIN E
    THEN E
    ELSE [E EXCEPT ![session_id].controller_ids = remove(@, controller_id),
                   ![session_id].frame_queues =
                        [c \in DOMAIN @ \ {controller_id} |-> @[c]]]

get_stats(E, session_id) ==
    IF session_id \in DOMAIN E
    THEN E[session_id].stats
    ELSE [total_frames |-> 0, total_bytes |-> 0, dropped_frames |-> 0]

(***************************************************************************)
(* The stream specification: the device of session 1 has registered its    *)
(* stream; controllers register, take frames and unregister in any order   *)
(* while frames are routed.  Frame n of a session carries the one byte n.  *)
(***************************************************************************)
\* Some entry of the controller list of session s names a queue that is full.
MeetsFullQueue(E, s) ==
    /\ s \in DOMAIN E
    /\ \E i \in 1..Len(E[s].controller_ids) :
        /\ E[s].controller_ids[i] \in DOMAIN E[s].frame_queues
        /\ Len(E[s].frame_queues[E[s].controller_ids[i]]) >= MAX_QUEUE_SIZE

\* The next frame the device of session s produces.
NextFrame(E, s) == <<get_stats(E, s).total_frames + 1>>

\* The endpoint of session s after register_device, one register_controller
\* for each of the distinct controllers of ids, and total calls of route_frame
\* with no get_frame: every queue holds the newest frames, 30 at most, and each
\* call that met full queues dropped one frame from each.
AfterFrames(s, device_id, ids, total) ==
    LET kept == IF total < MAX_QUEUE_SIZE THEN total ELSE MAX_QUEUE_SIZE
        queue == [i \in 1..kept |-> <<total - kept + i>>]
    IN  [session_id |-> s, device_id |-> device_id,
         controller_ids |-> ids,
         frame_queues |-> [c \in {ids[i] : i \in 1..Len(ids)} |-> queue],
         stats |-> [total_frames |-> total, total_bytes |-> total,
                    dropped_frames |-> Len(ids) * (total - kept)]]

\* How a run begins: with no controller and no frame; with controllers 1 and 2
\* and queues two frames short of full; with controller 1 alone, 48 frames
\* routed and none taken.
WarmUps ==
    {[ids |-> <<>>, frames |-> 0],
     [ids |-> <<1, 2>>, frames |-> MAX_QUEUE_SIZE - 2],
     [ids |-> <<1>>, frames |-> MAX_QUEUE_SIZE + 18]}

InitStream ==
    /\ InitServer
    /\ build = [relock |-> "deadlock", claim |-> "session"]
    /\ registry_set = TRUE
    /\ delivered = [c \in ConnIds |-> <<>>]
    /\ routed = 0
    /\ InitLimiter
    /\ InitOrder
    /\ InitStandalone
    /\ \E w \in WarmUps :
        /\ endpoints_ = (1 :> AfterFrames(1, "dev1", w.ids, w.frames))
        /\ full_calls = IF w.frames > MAX_QUEUE_SIZE /\ w.ids # <<>>
                        THEN w.frames - MAX_QUEUE_SIZE ELSE 0

RegisterController(s, c) ==
    /\ s \in DOMAIN endpoints_ => Len(endpoints_[s].controller_ids) < MaxControllers
    /\ endpoints_' = register_controller(endpoints_, s, c)
    /\ UNCHANGED <<delivered, full_calls, routed>>
    /\ UNCHANGED <<server_vars, limiter_vars, order_vars, standalone_vars>>

RouteFrame(s) ==
    /\ routed < MaxFrames
    /\ endpoints_' = route_frame(endpoints_, s, NextFrame(endpoints_, s))
    /\ full_calls' = IF MeetsFullQueue(endpoints_, s) THEN full_calls + 1 ELSE full_calls
    /\ routed' = routed + 1
    /\ UNCHANGED delivered
    /\ UNCHANGED <<server_vars, limiter_vars, order_vars, standalone_vars>>

GetFrame(s, c) ==
    /\ Len(delivered[c]) < MaxGets
    /\ LET r == get_frame(endpoints_, s, c)
       IN  /\ endpoints_' = r.endpoints
           /\ delivered' = IF r.ok THEN [delivered EXCEPT ![c] = Append(@, r.out_data)]
                           ELSE delivered
    /\ UNCHANGED <<full_calls, routed>>
    /\ UNCHANGED <<server_vars, limiter_vars, order_vars, standalone_vars>>

UnregisterController(s, c) ==
    /\ endpoints_' = unregister_controller(endpoints_, s, c)
    /\ UNCHANGED <<delivered, full_calls, routed>>
    /\ UNCHANGED <<server_vars, limiter_vars, order_vars, standalone_vars>>

NextStream ==
    \/ \E s \in SessionIds, c \in ConnIds : RegisterController(s, c)
    \/ \E s \in SessionIds : RouteFrame(s)
    \/ \E s \in SessionIds, c \in ConnIds : GetFrame(s, c)
    \/ \E s \in SessionIds, c \in ConnIds : UnregisterController(s, c)

SpecStream == InitStream /\ [][NextStream]_vars

(***************************************************************************)
(* Properties.                                                             *)
(***************************************************************************)
IsError(msg, code) == "code" \in DOMAIN msg /\ msg.type = "error" /\ msg.code = code

\* The open connections that authenticated as a device and are bound to session s.
DeviceConns(s) ==
    {id \in DOMAIN connections_ :
        /\ connections_[id].authenticated
        /\ connections_[id].is_device
        /\ connections_[id].session_id = s}

\* Connection c is open and joined session s as a controller.
IsControllerOf(c, s) ==
    /\ c \in DOMAIN connections_
    /\ connections_[c].authenticated
    /\ ~connections_[c].is_device
    /\ connections_[c].session_id = s

\* The last step handled text frame `frame` from connection c.
Handled(c, frame) == last.op = "on_message" /\ last.conn = c /\ last.arg = frame

\* C1: once a device has authenticated and a controller has joined its session, a
\* touch command the controller sends is written to the session's device
\* connection, unchanged, and to no other connection.
C1_TouchReachesDevice ==
    \A c \in ConnIds, s \in SessionIds :
        (/\ Handled(c, TouchTap)
         /\ IsControllerOf(c, s)
         /\ s \in DOMAIN sessions_
         /\ DeviceConns(s) # {})
        => \E d \in DeviceConns(s) : sent = <<[to |-> d, msg |-> TouchTap]>>

\* C1, the build in which the second lock goes on: the touch command did reach
\* the device.
C1_Delivered ==
    \E c \in ConnIds, s \in SessionIds :
        /\ Handled(c, TouchTap)
        /\ IsControllerOf(c, s)
        /\ s \in DOMAIN sessions_
        /\ \E d \in DeviceConns(s) : sent = <<[to |-> d, msg |-> TouchTap]>>

\* C2: a text frame other than auth_request, join_session and ping that comes
\* from an open connection that has not authenticated is answered to its sender
\* with an UNAUTHORIZED error and written to no other connection.
C2_UnauthorizedReply ==
    \A c \in ConnIds, frame \in CommandFrames :
        (/\ Handled(c, frame)
         /\ c \in DOMAIN connections_
         /\ ~connections_[c].authenticated)
        => /\ Len(sent) = 1
           /\ sent[1].to = c
           /\ IsError(sent[1].msg, "UNAUTHORIZED")

\* C2, the build in which the second lock goes on: the sender got UNAUTHORIZED.
C2_Answered ==
    \E c \in ConnIds, frame \in CommandFrames :
        /\ Handled(c, frame)
        /\ c \in DOMAIN connections_
        /\ ~connections_[c].authenticated
        /\ Len(sent) = 1
        /\ sent[1].to = c
        /\ IsError(sent[1].msg, "UNAUTHORIZED")

\* C3: of the touch commands a controller sends with no time elapsing, the first
\* 100 are forwarded to the device and the 101st is answered to the controller
\* with an ERR_RATE_LIMIT error and not written to the device.
C3_RateLimitEndToEnd ==
    (Handled(2, TouchTap) /\ burst >= 1)
    => IF burst <= TOUCH_MAX
       THEN sent = <<[to |-> 1, msg |-> TouchTap]>>
       ELSE /\ Len(sent) = 1
            /\ sent[1].to = 2
            /\ IsError(sent[1].msg, "ERR_RATE_LIMIT")

\* C3, the build in which the second lock goes on: the 101st touch command of a
\* burst was written to the device.
C3_Forwarded101 ==
    /\ Handled(2, TouchTap)
    /\ burst = TOUCH_MAX + 1
    /\ sent = <<[to |-> 1, msg |-> TouchTap]>>


\* The last step handled a join_session request that carried both of its fields.
HandledJoin(c) ==
    /\ last.op = "on_message"
    /\ last.conn = c
    /\ last.arg \in JoinFrames
    /\ last.arg.session_id # AbsentId
    /\ last.arg.jwt_token # AbsentToken

IsJoinResponse(msg) ==
    "type" \in DOMAIN msg /\ msg.type = "join_response"

\* The last step accepted a join: it answered join_response.
JoinAccepted == \E i \in 1..Len(sent) : IsJoinResponse(sent[i].msg)

\* C4: a join_session request whose token carries a session_id claim other than
\* the session_id of the request is rejected, even when the token is valid and
\* the requested session exists.
C4_JoinChecksSessionClaim ==
    \A c \in ConnIds :
        (HandledJoin(c) /\ last.arg.jwt_token.session_id # last.arg.session_id)
        => ~JoinAccepted

\* C4, the build that puts the session's id in the claim: the token issued for
\* session 1 was accepted in a request to join session 2.
C4_CrossSessionJoin ==
    \E c \in ConnIds :
        /\ HandledJoin(c)
        /\ last.arg.jwt_token.session_id = 1
        /\ last.arg.session_id = 2
        /\ JoinAccepted
        /\ IsControllerOf(c, 2)

\* C5: once a token has been revoked, every join_session request that presents
\* it is answered with an INVALID_TOKEN error and attaches nothing.
C5_RevokedTokenRejected ==
    \A c \in ConnIds :
        (HandledJoin(c) /\ is_revoked(jwt_manager_, last.arg.jwt_token))
        => /\ Len(sent) = 1
           /\ sent[1].to = c
           /\ IsError(sent[1].msg, "INVALID_TOKEN")

\* Connection c leaves connections_ in this step.
Closes(c) == c \in DOMAIN connections_ /\ c \notin DOMAIN connections_'

\* C6: the close of an authenticated controller connection leaves its session in
\* the registry, active and bound to the same device; a session leaves the
\* registry only when a device connection bound to it closes.
C6_ControllerCloseKeepsSession ==
    [][\A s \in DOMAIN sessions_ :
        /\ (\E c \in ConnIds : Closes(c) /\ IsControllerOf(c, s))
            => /\ s \in DOMAIN sessions_'
               /\ sessions_'[s].is_active
               /\ sessions_'[s].device_id = sessions_[s].device_id
        /\ s \notin DOMAIN sessions_'
            => \E c \in DeviceConns(s) : Closes(c)]_vars

\* C7: when an authenticated device connection closes, its session leaves the
\* registry (a later join finds no session) and every controller attached to the
\* session is written a frame that tells it the session ended.
C7_DeviceCloseEndsSession ==
    [][\A s \in DOMAIN sessions_ :
        (\E d \in DeviceConns(s) : Closes(d))
        => /\ get_session(sessions_', s) = NullSession
           /\ \A k \in ConnIds : ~join_session(sessions_', s, k, now').ok
           /\ \A k \in ConnIds :
                IsControllerOf(k, s)
                => \E i \in 1..Len(sent') : sent'[i].to = k]_vars

\* C8: once a connection is authenticated it stays authenticated, and its role
\* and its session_id do not change.
C8_AuthenticatedOnce ==
    [][\A c \in DOMAIN connections_ \cap DOMAIN connections_' :
        connections_[c].authenticated
        => /\ connections_'[c].authenticated
           /\ connections_'[c].is_device = connections_[c].is_device
           /\ connections_'[c].session_id = connections_[c].session_id]_vars

\* The active sessions of device d.
ActiveSessionsOf(d) ==
    {id \in DOMAIN sessions_ : sessions_[id].device_id = d /\ sessions_[id].is_active}

\* C9: a device has at most one active session, and create(d) returns the id of
\* an active session of d: the one d had, or else a newly minted one.
C9_OneActiveSessionPerDevice ==
    /\ \A d \in DeviceIds : Cardinality(ActiveSessionsOf(d)) <= 1
    /\ last.op = "create_session"
        => /\ last.arg.session_id \in ActiveSessionsOf(last.arg.device_id)
           /\ last.ret = "minted" => /\ last.arg.session_id = next_session - 1
                                     /\ last.arg.session_id \notin closed_ids

\* C9: create(d) found d's active session and returned it, after some other
\* session had been closed.
C9_ReturnedExisting ==
    /\ last.op = "create_session"
    /\ last.ret = "existing"
    /\ closed_ids # {}
    /\ last.arg.session_id = next_session - 1

\* C10: a session that close reported closed is not returned by get, by_device
\* or by_controller, cannot be joined and cannot be closed again.
C10_ClosedIsTerminal ==
    \A s \in closed_ids :
        /\ get_session(sessions_, s) = NullSession
        /\ \A d \in DeviceIds :
            \A found \in get_session_by_device(sessions_, d) : found.session_id # s
        /\ \A c \in ConnIds :
            \A found \in get_session_by_controller(sessions_, c) : found.session_id # s
        /\ \A c \in ConnIds : ~join_session(sessions_, s, c, now).ok
        /\ ~close_session(sessions_, s).ok

\* C10: a join of a closed session was refused.
C10_JoinAfterCloseRefused ==
    /\ last.op = "join_session"
    /\ last.arg.session_id \in closed_ids
    /\ last.ret = "false"

ByControllerFinds(S, c, s) ==
    \E found \in get_session_by_controller(S, c) : found.session_id = s

\* C14: join(s, c) returns false and changes nothing when s is missing or
\* inactive; otherwise it returns true, refreshes last_activity and records c
\* among the controllers of s, so that by_controller still finds s for every
\* controller that joined s before.
C14_JoinRecordsEveryController ==
    [][\A s \in SessionIds, c \in ConnIds :
        (last'.op = "join_session" /\ last'.conn = c /\ last'.arg.session_id = s
            /\ now' = now)
        => IF s \notin DOMAIN sessions_ \/ ~get_session(sessions_, s).is_active
           THEN last'.ret = "false" /\ sessions_' = sessions_
           ELSE /\ last'.ret = "true"
                /\ sessions_'[s].last_activity = now
                /\ ByControllerFinds(sessions_', c, s)
                /\ \A k \in ConnIds :
                    ByControllerFinds(sessions_, k, s) => ByControllerFinds(sessions_', k, s)]_vars

\* The frames queued for the controllers of endpoint ep, all queues together.
RECURSIVE Queued(_, _)
Queued(ep, cs) ==
    IF cs = {} THEN 0
    ELSE LET c == CHOOSE k \in cs : TRUE
         IN  Len(ep.frame_queues[c]) + Queued(ep, cs \ {c})

\* The byte of frame i of the sequence q of frames.
FrameNo(q, i) == q[i][1]

Increasing(q) == \A i \in 1..(Len(q) - 1) : FrameNo(q, i) < FrameNo(q, i + 1)

\* C15: no frame queue of any stream endpoint ever holds more than 30 frames.
C15_QueueBounded ==
    \A s \in DOMAIN endpoints_ :
        \A c \in DOMAIN endpoints_[s].frame_queues :
            Len(endpoints_[s].frame_queues[c]) <= MAX_QUEUE_SIZE

\* C15: a frame was routed into the full queues of controllers 1 and 2, which
\* still hold 30 frames each.
C15_FullQueueOverflowed ==
    /\ routed > 0
    /\ endpoints_[1].controller_ids = <<1, 2>>
    /\ Len(endpoints_[1].frame_queues[1]) = MAX_QUEUE_SIZE
    /\ Len(endpoints_[1].frame_queues[2]) = MAX_QUEUE_SIZE
    /\ endpoints_[1].stats.dropped_frames > 0

\* Session s has the one controller c, which has taken no frame, and total frames
\* have been routed since c registered.
UndrainedAfter(E, s, c, total) ==
    /\ s \in DOMAIN E
    /\ E[s].controller_ids = <<c>>
    /\ E[s].stats.total_frames = total
    /\ Len(E[s].frame_queues[c]) + E[s].stats.dropped_frames = total

\* C16, as the claim states it: dropped_frames is the number of route_frame calls
\* that met a full queue, and 50 calls into a session whose one controller takes
\* nothing leave its queue at 30 frames and dropped_frames at 20.
C16_DroppedCountsFullCalls ==
    \A s \in DOMAIN endpoints_ :
        /\ endpoints_[s].stats.dropped_frames = full_calls
        /\ \A c \in ConnIds :
            UndrainedAfter(endpoints_, s, c, 50)
            => /\ Len(endpoints_[s].frame_queues[c]) = MAX_QUEUE_SIZE
               /\ endpoints_[s].stats.dropped_frames = 20

\* C16, amended: dropped_frames counts the frames route_frame evicts.  A call
\* adds to it what it pushed (one frame per entry of the controller list) less
\* what the queues grew by, every other operation leaves it unchanged, and 50
\* calls into a session whose one controller takes nothing leave its queue at
\* 30 frames and dropped_frames at 20.
C16_DroppedCountsEvictions ==
    [][\A s \in DOMAIN endpoints_ \cap DOMAIN endpoints_' :
        LET ep == endpoints_[s]
            after == endpoints_'[s]
            pushed == IF after.stats.total_frames = ep.stats.total_frames + 1
                      THEN Len(ep.controller_ids) ELSE 0
            grown == Queued(after, DOMAIN after.frame_queues)
                        - Queued(ep, DOMAIN ep.frame_queues)
        IN  /\ after.stats.total_frames # ep.stats.total_frames
                => after.stats.dropped_frames = ep.stats.dropped_frames + pushed - grown
            /\ after.stats.total_frames = ep.stats.total_frames
                => after.stats.dropped_frames = ep.stats.dropped_frames
            /\ \A c \in ConnIds :
                UndrainedAfter(endpoints_', s, c, 50)
                => /\ Len(after.frame_queues[c]) = MAX_QUEUE_SIZE
                   /\ after.stats.dropped_frames = 20]_vars

\* C16: the 50th frame has been routed into session 1, whose one controller took
\* nothing: its queue holds frames 21 to 50 and 20 frames were dropped.
C16_FiftyFramesTwentyDropped ==
    /\ routed > 0
    /\ UndrainedAfter(endpoints_, 1, 1, 50)
    /\ delivered[1] = <<>>
    /\ Len(endpoints_[1].frame_queues[1]) = MAX_QUEUE_SIZE
    /\ FrameNo(endpoints_[1].frame_queues[1], 1) = 21
    /\ endpoints_[1].stats.dropped_frames = 20

\* C17: the frames a controller has taken with get_frame are frames that were
\* routed, in the order of their production and each at most once; a queue that
\* is not empty ends with the newest frame and holds no frame older than one
\* its controller has taken.
C17_FramesInOrderOnce ==
    \A s \in DOMAIN endpoints_ :
        \A c \in ConnIds :
            LET taken == delivered[c]
                queue == IF c \in DOMAIN endpoints_[s].frame_queues
                         THEN endpoints_[s].frame_queues[c] ELSE <<>>
            IN  /\ Increasing(taken)
                /\ \A i \in 1..Len(taken) :
                    FrameNo(taken, i) \in 1..endpoints_[s].stats.total_frames
                /\ queue # <<>>
                    => /\ FrameNo(queue, Len(queue)) = endpoints_[s].stats.total_frames
                       /\ taken # <<>> => FrameNo(taken, Len(taken)) <= FrameNo(queue, 1)

\* The entries of a controller list.
Entries(ids) == {ids[i] : i \in 1..Len(ids)}

\* C18: the keys of an endpoint's frame_queues are the controllers of its list,
\* and no controller_id is twice in the list.
C18_QueuesMatchControllers ==
    \A s \in DOMAIN endpoints_ :
        /\ DOMAIN endpoints_[s].frame_queues = Entries(endpoints_[s].controller_ids)
        /\ Cardinality(Entries(endpoints_[s].controller_ids))
            = Len(endpoints_[s].controller_ids)

(***************************************************************************)
(* The relay specification: a device has authenticated on connection 1,    *)
(* two controllers have joined its session on connections 2 and 3,         *)
(* connection 4 is open and has not authenticated.  Every connection sends *)
(* text and binary frames while the clock advances.                        *)
(***************************************************************************)
RelayConns == {1, 2, 3, 4}

\* A binary WebSocket frame (an H.264 access unit): on_message reads its payload
\* without looking at the opcode, and the payload is not JSON.
BinaryFrame == [raw |-> "<h264 access unit>"]

RelayTextFrames == {TouchTap, StatusFrame, PingFrame}

InitRelay ==
    /\ build \in [relock : RelockOutcomes, claim : ClaimModes]
    /\ registry_set = TRUE
    /\ devices_ = DefaultDevices
    /\ jwt_manager_ = JWTManager("your-secret-key-change-me", 24)
    /\ now = 0
    /\ opened = RelayConns
    /\ stuck = FALSE
    /\ closed_ids = {}
    /\ burst = 0
    /\ endpoints_ = <<>>
    /\ delivered = [c \in ConnIds |-> <<>>]
    /\ full_calls = 0
    /\ routed = 0
    /\ InitLimiter
    /\ InitOrder
    /\ InitStandalone
    /\ LET C0 == [id \in RelayConns |-> NewConnection(id, 0)]
           a == Only(on_message(C0, <<>>, 1, TRUE, DefaultDevices, 1,
                                [type |-> "auth_request", device_id |-> "dev1",
                                 secret |-> "sec1"],
                                0, build.relock, build.claim))
           tok == Only(a.tokens)
           frame == [type |-> "join_session", session_id |-> 1, jwt_token |-> tok]
           j == Only(on_message(a.connections, a.sessions, a.next, TRUE, DefaultDevices,
                                2, frame, 0, build.relock, build.claim))
           k == Only(on_message(j.connections, j.sessions, j.next, TRUE, DefaultDevices,
                                3, frame, 0, build.relock, build.claim))
       IN  /\ connections_ = k.connections
           /\ sessions_ = k.sessions
           /\ next_session = k.next
           /\ issued = a.tokens
           /\ sent = k.sent
           /\ last = [op |-> "on_message", conn |-> 3, arg |-> frame, ret |-> k.ret]

\* on_message for a text frame of one of the connections.
OnText ==
    \E c \in RelayConns : \E frame \in RelayTextFrames :
        /\ parse_ok(frame)
        /\ OnMessage(c, frame)

\* on_message for a binary frame: the same handler, installed with
\* set_message_handler for every opcode.
OnBinary ==
    \E c \in RelayConns :
        /\ get_message_type(BinaryFrame) = "UNKNOWN"
        /\ OnMessage(c, BinaryFrame)

TickRelay ==
    /\ Advance({150, 151}, MaxNow)
    /\ UNCHANGED burst

NextRelay ==
    \/ OnText
    \/ OnBinary
    \/ TickRelay

SpecRelay == InitRelay /\ [][NextRelay]_vars

\* The same while the server keeps running: the clock goes on, whatever the
\* clients do.
SpecRelayFair == InitRelay /\ [][NextRelay]_vars /\ WF_vars(TickRelay)

\* C12: every session that has been idle for more than 300 s is eventually
\* removed from the session registry while the server runs, whatever the
\* clients do.
C12_IdleSessionReaped ==
    \A s \in SessionIds :
        (s \in DOMAIN sessions_ /\ is_expired(sessions_[s], now))
            ~> (s \notin DOMAIN sessions_)

\* C13: a frame, text or binary, handled from an authenticated connection
\* advances the last_activity of the connection's session to the time of the
\* frame, so cleanup_expired keeps that session during the next 300 s.
C13_TrafficRefreshesActivity ==
    [][\A c \in RelayConns :
        LET s == connections_[c].session_id
        IN  (/\ last'.op = "on_message"
             /\ last'.conn = c
             /\ last'.arg \in RelayTextFrames \cup {BinaryFrame}
             /\ now' = now
             /\ connections_[c].authenticated
             /\ s \in DOMAIN sessions_)
            => /\ s \in DOMAIN sessions_'
               /\ sessions_'[s].last_activity = now'
               /\ s \in DOMAIN cleanup_expired(sessions_', now' + IDLE_TIMEOUT)]_vars

\* Frame `frame` was written to some connection by the last step.
DeliveredToSomeone(frame) == \E i \in 1..Len(sent) : sent[i].msg = frame

\* The stream router holds a frame for controller connection k of session s.
QueuedFor(s, k) ==
    /\ s \in DOMAIN endpoints_
    /\ k \in DOMAIN endpoints_[s].frame_queues
    /\ endpoints_[s].frame_queues[k] # <<>>

\* C19: a binary frame from an authenticated device connection is routed by the
\* stream router into the frame queue of every controller of the session; a
\* binary frame from any other connection is delivered to no connection.
C19_BinaryOnlyFromDevice ==
    \A c \in RelayConns :
        Handled(c, BinaryFrame)
            => IF connections_[c].authenticated /\ connections_[c].is_device
               THEN \A k \in RelayConns :
                        IsControllerOf(k, connections_[c].session_id)
                            => QueuedFor(connections_[c].session_id, k)
               ELSE ~DeliveredToSomeone(BinaryFrame)

\* C20: a text message that the server relayed for an authenticated device was
\* written to every controller connection of the device's session.
C20_DeviceTextReachesEveryController ==
    \A c \in RelayConns :
        (/\ Handled(c, StatusFrame)
         /\ last.ret = "routed"
         /\ connections_[c].authenticated
         /\ connections_[c].is_device)
            => \A k \in RelayConns :
                IsControllerOf(k, connections_[c].session_id)
                    => \E i \in 1..Len(sent) : sent[i] = [to |-> k, msg |-> StatusFrame]

(***************************************************************************)
(* RateLimiter (rate_limiter.h, rate_limiter.cpp).  Every method holds     *)
(* mutex_ from its first to its last statement, so each is one atomic      *)
(* action.  A std::string is a sequence of characters.  The doubles are    *)
(* exact: a bucket counts in units of 1/12000 token and the clock counts   *)
(* milliseconds, so that every refill rate is a whole number of units per  *)
(* millisecond.                                                            *)
(***************************************************************************)
TOKEN == 12000         \* 1.0 token, in bucket units

TEXT_MAX == 10
MACRO_MAX == 1
OCR_MAX == 2
AUTH_MAX == 5

\* A rate in tokens per second as bucket units per millisecond.
PerSecond(n) == (n * TOKEN) \div 1000

\* AUTH_MAX / 60.0 tokens per second, as bucket units per millisecond.
PerMinute(n) == (n * TOKEN) \div 60000

Colon == <<":">>
TouchSuffix == <<"t", "o", "u", "c", "h">>
TextSuffix == <<"t", "e", "x", "t">>
MacroSuffix == <<"m", "a", "c", "r", "o">>
OcrSuffix == <<"o", "c", "r">>
AuthSuffix == <<"a", "u", "t", "h">>

\* std::string::find(needle) == 0: needle is found at the start of haystack.
find_at_start(haystack, needle) ==
    /\ Len(needle) <= Len(haystack)
    /\ SubSeq(haystack, 1, Len(needle)) = needle

\* refill_bucket without the std::min that caps the bucket.
refill_bucket_uncapped(bucket, t) ==
    [bucket EXCEPT !.tokens = bucket.tokens + (t - bucket.last_update) * bucket.refill_rate,
                   !.last_update = t]

refill_bucket(bucket, t) ==
    LET filled == bucket.tokens + (t - bucket.last_update) * bucket.refill_rate
    IN  [bucket EXCEPT !.tokens = IF filled < bucket.max_tokens THEN filled
                                  ELSE bucket.max_tokens,
                       !.last_update = t]

\* check_and_consume that lets a call through while the bucket is not negative.
check_and_consume_to_zero(B, key, max_tokens, refill_rate, t) ==
    LET B1 == IF key \in DOMAIN B THEN B
              ELSE B @@ (key :> [tokens |-> max_tokens, max_tokens |-> max_tokens,
                                 refill_rate |-> refill_rate, last_update |-> t])
        bucket == refill_bucket(B1[key], t)
    IN  IF bucket.tokens >= 0
        THEN [buckets |-> [B1 EXCEPT ![key] = [bucket EXCEPT !.tokens = @ - TOKEN]],
              ok |-> TRUE]
        ELSE [buckets |-> [B1 EXCEPT ![key] = bucket], ok |-> FALSE]

\* check_and_consume: [buckets |-> buckets_ afterwards, ok |-> the value returned].
check_and_consume(B, key, max_tokens, refill_rate, t) ==
    LET B1 == IF key \in DOMAIN B THEN B
              ELSE B @@ (key :> [tokens |-> max_tokens, max_tokens |-> max_tokens,
                                 refill_rate |-> refill_rate, last_update |-> t])
        bucket == refill_bucket(B1[key], t)
    IN  IF bucket.tokens >= TOKEN
        THEN [buckets |-> [B1 EXCEPT ![key] = [bucket EXCEPT !.tokens = @ - TOKEN]],
              ok |-> TRUE]
        ELSE [buckets |-> [B1 EXCEPT ![key] = bucket], ok |-> FALSE]

allow_touch(B, session_id, t) ==
    check_and_consume(B, session_id \o Colon \o TouchSuffix,
                      TOUCH_MAX * TOKEN, PerSecond(TOUCH_MAX), t)

\* allow_text that draws on the touch bucket of the session.
allow_text_from_touch(B, session_id, t) ==
    check_and_consume(B, session_id \o Colon \o TouchSuffix,
                      TEXT_MAX * TOKEN, PerSecond(TEXT_MAX), t)

allow_text(B, session_id, t) ==
    check_and_consume(B, session_id \o Colon \o TextSuffix,
                      TEXT_MAX * TOKEN, PerSecond(TEXT_MAX), t)

allow_macro(B, session_id, t) ==
    check_and_consume(B, session_id \o Colon \o MacroSuffix,
                      MACRO_MAX * TOKEN, PerSecond(MACRO_MAX), t)

allow_ocr(B, session_id, t) ==
    check_and_consume(B, session_id \o Colon \o OcrSuffix,
                      OCR_MAX * TOKEN, PerSecond(OCR_MAX), t)

allow_auth(B, device_id, t) ==
    check_and_consume(B, device_id \o Colon \o AuthSuffix,
                      AUTH_MAX * TOKEN, PerMinute(AUTH_MAX), t)

\* reset_session: erase every bucket whose key has session_id at position 0.
reset_session(B, session_id) ==
    [key \in {k \in DOMAIN B : ~find_at_start(k, session_id)} |-> B[key]]

(***************************************************************************)
(* The rate-limiter specification: the methods of RateLimiter, called in   *)
(* any order for two session ids of which one is a prefix of the other,    *)
(* while the steady clock advances.                                        *)
(***************************************************************************)
Categories == {"touch", "text", "macro", "ocr", "auth"}

Suffix(category) ==
    CASE category = "touch" -> TouchSuffix
      [] category = "text" -> TextSuffix
      [] category = "macro" -> MacroSuffix
      [] category = "ocr" -> OcrSuffix
      [] category = "auth" -> AuthSuffix

\* The capacity N of a category, in tokens.
Capacity(category) ==
    CASE category = "touch" -> TOUCH_MAX
      [] category = "text" -> TEXT_MAX
      [] category = "macro" -> MACRO_MAX
      [] category = "ocr" -> OCR_MAX
      [] category = "auth" -> AUTH_MAX

\* The composite bucket key of (category, key).
BucketKey(category, key) == key \o Colon \o Suffix(category)

\* The allow_* method of a category.
allow(B, category, key, t) ==
    CASE category = "touch" -> allow_touch(B, key, t)
      [] category = "text" -> allow_text(B, key, t)
      [] category = "macro" -> allow_macro(B, key, t)
      [] category = "ocr" -> allow_ocr(B, key, t)
      [] category = "auth" -> allow_auth(B, key, t)

LimiterKeys == {<<"s", "1">>, <<"s", "1", "0">>}

LimiterCall(op, category, key, ret) ==
    [op |-> op, conn |-> NoConn, arg |-> [category |-> category, key |-> key], ret |-> ret]

\* The grants whose bucket is still in B.
GrantsIn(B, g) == SelectSeq(g, LAMBDA e : e.bucket \in DOMAIN B)

InitLimiterSpec ==
    /\ InitServer
    /\ build = [relock |-> "deadlock", claim |-> "session"]
    /\ registry_set = TRUE
    /\ endpoints_ = <<>>
    /\ delivered = [c \in ConnIds |-> <<>>]
    /\ full_calls = 0
    /\ routed = 0
    /\ InitLimiter
    /\ InitOrder
    /\ InitStandalone

Allow(category, key) ==
    /\ Len(grants) < MaxGrants
    /\ LET r == allow(buckets_, category, key, steady_clock)
       IN  /\ buckets_' = r.buckets
           /\ grants' = IF r.ok
                        THEN Append(grants, [bucket |-> BucketKey(category, key),
                                             at |-> steady_clock])
                        ELSE grants
           /\ last' = LimiterCall("allow", category, key, Truth(r.ok))
    /\ UNCHANGED <<rate_limiter_, steady_clock>>
    /\ UNCHANGED <<connections_, opened, stuck, build, sessions_, next_session, closed_ids,
                   registry_set, devices_, jwt_manager_, issued, now, sent, burst>>
    /\ UNCHANGED <<stream_vars, order_vars, standalone_vars>>

ResetSession(key) ==
    /\ buckets_' = reset_session(buckets_, key)
    /\ grants' = GrantsIn(buckets_', grants)
    /\ last' = LimiterCall("reset_session", "", key, "")
    /\ UNCHANGED <<rate_limiter_, steady_clock>>
    /\ UNCHANGED <<connections_, opened, stuck, build, sessions_, next_session, closed_ids,
                   registry_set, devices_, jwt_manager_, issued, now, sent, burst>>
    /\ UNCHANGED <<stream_vars, order_vars, standalone_vars>>

\* The steady clock advances.
TickSteady(steps, cap) ==
    /\ \E d \in steps : steady_clock + d <= cap /\ steady_clock' = steady_clock + d
    /\ UNCHANGED <<buckets_, rate_limiter_, grants>>
    /\ UNCHANGED <<server_vars, stream_vars, order_vars, standalone_vars>>

TickLimiter == TickSteady({500, 1000}, MaxSteady) /\ now' = now

NextLimiter ==
    \/ \E category \in Categories : \E key \in LimiterKeys : Allow(category, key)
    \/ \E key \in LimiterKeys : ResetSession(key)
    \/ TickLimiter

SpecLimiter == InitLimiterSpec /\ [][NextLimiter]_vars

\* The times of the allow calls on one bucket that returned true, in order.
GrantsOf(bucket) == SelectSeq(grants, LAMBDA e : e.bucket = bucket)

\* C25: over any time window, the allow calls on one (category, key) that
\* return true number at most N + r * (length of the window): between the i-th
\* and the j-th grant of a bucket, both included, the tokens granted are at
\* most the capacity plus the refill of the time between them.
C25_GrantsBounded ==
    \A bucket \in DOMAIN buckets_ :
        LET g == GrantsOf(bucket)
        IN  \A i \in 1..Len(g) : \A j \in i..Len(g) :
                (j - i + 1) * TOKEN
                    <= buckets_[bucket].max_tokens
                       + buckets_[bucket].refill_rate * (g[j].at - g[i].at)

\* C25 witness: a bucket has granted more calls than its capacity, the refill
\* of the elapsed time paying for the rest.
C25_GrantedBeyondCapacity ==
    \E bucket \in DOMAIN buckets_ :
        /\ Len(GrantsOf(bucket)) * TOKEN > buckets_[bucket].max_tokens
        /\ last.op = "allow"
        /\ last.ret = "false"

\* The buckets of B other than `bucket`.
Others(B, bucket) == [key \in DOMAIN B \ {bucket} |-> B[key]]

\* C27: an allow call on (category, key) changes only the bucket
\* key + ":" + category and its result depends on that bucket alone: every
\* other bucket is the same before and after the call, and the call returns
\* what it returns when no other bucket exists.
C27_AllowTouchesOneBucket ==
    [][(last'.op = "allow" /\ steady_clock' = steady_clock)
        => LET own == BucketKey(last'.arg.category, last'.arg.key)
               alone == [key \in DOMAIN buckets_ \cap {own} |-> buckets_[key]]
           IN  /\ Others(buckets_', own) = Others(buckets_, own)
               /\ own \in DOMAIN buckets_'
               /\ last'.ret = Truth(allow(alone, last'.arg.category, last'.arg.key,
                                          steady_clock).ok)]_vars

\* C27 witness: a call was allowed at an instant at which another category of
\* the same key had been exhausted and the other key had buckets too.
C27_AllowedBesideEmptyBucket ==
    \E key \in LimiterKeys : \E other \in LimiterKeys \ {key} :
        \E category \in Categories : \E exhausted \in Categories \ {category} :
            /\ last = LimiterCall("allow", category, key, "true")
            /\ BucketKey(exhausted, key) \in DOMAIN buckets_
            /\ buckets_[BucketKey(exhausted, key)].tokens < TOKEN
            /\ buckets_[BucketKey(exhausted, key)].last_update = steady_clock
            /\ BucketKey(exhausted, other) \in DOMAIN buckets_

\* C28: reset_session(key) removes exactly the buckets whose composite key
\* starts with key + ":"; every other bucket, also one of a key that has `key`
\* as a proper prefix, is the same before and after.
C28_ResetRemovesOneKey ==
    [][(last'.op = "reset_session" /\ steady_clock' = steady_clock)
        => LET prefix == last'.arg.key \o Colon
               kept == {bucket \in DOMAIN buckets_ : ~find_at_start(bucket, prefix)}
           IN  buckets_' = [bucket \in kept |-> buckets_[bucket]]]_vars

(***************************************************************************)
(* The bucket-fill specification: one (category, key) pair that has no     *)
(* bucket yet is called until its bucket is empty, and on while the steady *)
(* clock advances by refill periods of the category.                       *)
(***************************************************************************)
FillKey == <<"s", "1">>

\* The refill rate of a category, in bucket units per millisecond.
RefillRate(category) ==
    IF category = "auth" THEN PerMinute(AUTH_MAX) ELSE PerSecond(Capacity(category))

\* The time in which a bucket of the category gains one token, in milliseconds.
Period(category) == TOKEN \div RefillRate(category)

FillAllow(category) ==
    /\ DOMAIN buckets_ \subseteq {BucketKey(category, FillKey)}
    /\ burst < Capacity(category) + 1 + MaxPeriods
    /\ LET r == allow(buckets_, category, FillKey, steady_clock)
       IN  /\ buckets_' = r.buckets
           /\ last' = LimiterCall("allow", category, FillKey, Truth(r.ok))
    /\ burst' = burst + 1
    /\ UNCHANGED <<rate_limiter_, steady_clock, grants>>
    /\ UNCHANGED <<connections_, opened, stuck, build, sessions_, next_session, closed_ids,
                   registry_set, devices_, jwt_manager_, issued, now, sent>>
    /\ UNCHANGED <<stream_vars, order_vars, standalone_vars>>

TickFill ==
    \E category \in Categories :
        /\ BucketKey(category, FillKey) \in DOMAIN buckets_
        /\ TickSteady({Period(category)}, MaxPeriods * Period(category))

NextFill ==
    \/ \E category \in Categories : FillAllow(category)
    \/ TickFill

SpecFill == InitLimiterSpec /\ [][NextFill]_vars

\* C26: for a pair with no bucket yet and no time elapsing, call number n
\* returns true exactly when n <= N, N the capacity of the category; and a call
\* that finds the bucket without a token one refill period or more after its
\* last update returns true.
C26_FirstNAllowed ==
    [][(last'.op = "allow" /\ burst' = burst + 1)
        => LET category == last'.arg.category
               own == BucketKey(category, FillKey)
           IN  /\ steady_clock = 0
                    => last'.ret = Truth(burst' <= Capacity(category))
               /\ (/\ own \in DOMAIN buckets_
                   /\ buckets_[own].tokens < TOKEN
                   /\ steady_clock - buckets_[own].last_update >= Period(category))
                    => last'.ret = "true"]_vars

\* C26 witness: the touch bucket gave 100 calls, refused call 101 and, one
\* refill period later, gave call 102.
C26_RefilledAfterEmpty ==
    /\ last = LimiterCall("allow", "touch", FillKey, "true")
    /\ burst = TOUCH_MAX + 2
    /\ steady_clock = Period("touch")
    /\ buckets_[BucketKey("touch", FillKey)].tokens = 0

(***************************************************************************)
(* CommandRouter (command_router.h, command_router.cpp).  A command is a   *)
(* JSON object: a record of its fields.  A std::string that a method       *)
(* returns is the record of what it spells.                                *)
(***************************************************************************)
\* A JSON value that is not a string, where the code converts to std::string.
NotAString == "<not a string>"

\* The empty std::string.
EmptyText == [text |-> "", of |-> [none |-> TRUE]]

\* json::dump(): the text that spells the JSON object j.
dump(j) == [text |-> "json", of |-> j]

RateLimitError ==
    [type |-> "error", code |-> "ERR_RATE_LIMIT",
     message |-> "Too many requests, please slow down"]

\* command.value(name, ""): the field, or the default when it is missing.
value(command, name) == IF name \in DOMAIN command THEN command[name] ELSE ""

\* validate_command: "true", "false", or "throws" where the conversion of the
\* type field to std::string throws a json type_error.
validate_command(command) ==
    IF "type" \notin DOMAIN command THEN "false"
    ELSE IF command.type = NotAString THEN "throws"
    ELSE IF command.type = "touch" /\ "action" \notin DOMAIN command THEN "false"
    ELSE IF /\ command.type = "touch"
            /\ command.action \in {"tap", "long_press"}
            /\ ~({"x", "y"} \subseteq DOMAIN command) THEN "false"
    ELSE IF /\ command.type = "touch"
            /\ command.action = "swipe"
            /\ ~({"start_x", "start_y", "end_x", "end_y"} \subseteq DOMAIN command)
         THEN "false"
    ELSE IF command.type = "key" /\ "action" \notin DOMAIN command THEN "false"
    ELSE IF /\ command.type = "key"
            /\ command.action = "text"
            /\ "text" \notin DOMAIN command THEN "false"
    ELSE IF /\ command.type = "key"
            /\ command.action = "press"
            /\ "keycode" \notin DOMAIN command THEN "false"
    ELSE "true"

Allowed(B) == [buckets |-> B, ok |-> TRUE]

\* check_rate_limit: [buckets |-> buckets_ afterwards, ok |-> the value returned].
check_rate_limit(B, limiter_set, session_id, command, t) ==
    IF ~limiter_set THEN Allowed(B)
    ELSE IF value(command, "type") = "touch" THEN allow_touch(B, session_id, t)
    ELSE IF value(command, "type") = "key"
         THEN IF value(command, "action") = "text" THEN allow_text(B, session_id, t)
              ELSE Allowed(B)
    ELSE IF value(command, "type") = "macro" THEN allow_macro(B, session_id, t)
    ELSE IF /\ value(command, "type") = "ai"
            /\ value(command, "action") \in {"ocr", "detect_ui"}
         THEN allow_ocr(B, session_id, t)
    ELSE Allowed(B)

\* sanitize_command that masks the token and leaves secret and password.
sanitize_command_token_only(command) ==
    [field \in DOMAIN command |->
        IF field = "jwt_token" THEN "***" ELSE command[field]]

\* sanitize_command: a copy of the command with the sensitive fields it has
\* masked.
sanitize_command(command) ==
    [field \in DOMAIN command |->
        IF field \in {"jwt_token", "secret", "password"} THEN "***" ELSE command[field]]

\* route_to_device that forwards the command whatever the rate limiter says.
route_to_device_forwards_denied(B, limiter_set, session_id, command, t) ==
    LET r == check_rate_limit(B, limiter_set, session_id, command, t)
    IN  IF validate_command(command) = "throws"
        THEN [buckets |-> B, out |-> EmptyText, thrown |-> TRUE]
        ELSE IF validate_command(command) = "false"
        THEN [buckets |-> B, out |-> EmptyText, thrown |-> FALSE]
        ELSE [buckets |-> r.buckets, out |-> dump(command), thrown |-> FALSE]

\* route_to_device that asks the rate limiter before it validates the command.
route_to_device_limit_first(B, limiter_set, session_id, command, t) ==
    LET r == check_rate_limit(B, limiter_set, session_id, command, t)
    IN  IF validate_command(command) = "throws"
        THEN [buckets |-> B, out |-> EmptyText, thrown |-> TRUE]
        ELSE IF validate_command(command) = "false"
        THEN [buckets |-> r.buckets, out |-> EmptyText, thrown |-> FALSE]
        ELSE IF ~r.ok
        THEN [buckets |-> r.buckets, out |-> dump(RateLimitError), thrown |-> FALSE]
        ELSE [buckets |-> r.buckets, out |-> dump(command), thrown |-> FALSE]

\* route_to_device: the string returned, or thrown when an exception leaves it.
route_to_device(B, limiter_set, session_id, command, t) ==
    LET r == check_rate_limit(B, limiter_set, session_id, command, t)
    IN  IF validate_command(command) = "throws"
        THEN [buckets |-> B, out |-> EmptyText, thrown |-> TRUE]
        ELSE IF validate_command(command) = "false"
        THEN [buckets |-> B, out |-> EmptyText, thrown |-> FALSE]
        ELSE IF ~r.ok
        THEN [buckets |-> r.buckets, out |-> dump(RateLimitError), thrown |-> FALSE]
        ELSE [buckets |-> r.buckets, out |-> dump(command), thrown |-> FALSE]

(***************************************************************************)
(* The command-router specification: a rate limiter is handed to the       *)
(* router or taken from it, commands of one session are routed to the      *)
(* device, and the steady clock advances.                                  *)
(***************************************************************************)
RouterSession == <<"s", "1">>

RouterCommands ==
    {TouchTap,
     [type |-> "touch", action |-> "tap"],
     [type |-> "key", action |-> "text", text |-> "hi"],
     [type |-> "key", action |-> "text"],
     [type |-> "key", action |-> "press", keycode |-> 4],
     [type |-> "macro", name |-> "unlock"],
     [type |-> "ai", action |-> "ocr"],
     [action |-> "tap"],
     [type |-> NotAString],
     [type |-> "auth", jwt_token |-> "token", secret |-> "sec1", password |-> "pw"],
     [type |-> "key", action |-> "text", text |-> "hi", password |-> "pw"]}

\* The rate-limit category check_rate_limit puts a command in, "none" for a
\* command that is not rate limited.
RateCategory(command) ==
    IF value(command, "type") = "touch" THEN "touch"
    ELSE IF value(command, "type") = "key" /\ value(command, "action") = "text" THEN "text"
    ELSE IF value(command, "type") = "macro" THEN "macro"
    ELSE IF /\ value(command, "type") = "ai"
            /\ value(command, "action") \in {"ocr", "detect_ui"} THEN "ocr"
    ELSE "none"

\* How a call of route_to_device for `command` ended.
Ending(r, command) ==
    IF r.thrown THEN "exception"
    ELSE IF r.out = EmptyText THEN "empty"
    ELSE IF r.out = dump(RateLimitError) THEN "ERR_RATE_LIMIT"
    ELSE IF r.out = dump(command) THEN "command"
    ELSE "other"

\* set_rate_limiter with a RateLimiter just made (make_shared), or with nullptr.
SetRateLimiter(limiter_set) ==
    /\ rate_limiter_' = limiter_set
    /\ buckets_' = <<>>
    /\ burst' = 0
    /\ last' = [op |-> "set_rate_limiter", conn |-> NoConn, arg |-> NoFrame,
                ret |-> Truth(limiter_set)]
    /\ UNCHANGED <<steady_clock, grants>>
    /\ UNCHANGED <<connections_, opened, stuck, build, sessions_, next_session, closed_ids,
                   registry_set, devices_, jwt_manager_, issued, now, sent>>
    /\ UNCHANGED <<stream_vars, order_vars, standalone_vars>>

\* route_to_device; burst counts the valid touch commands routed since the rate
\* limiter was handed over.  A run draws either on the touch bucket or on the
\* buckets of the other categories.
RouteToDevice(command) ==
    /\ burst < TOUCH_MAX + 2
    /\ command = TouchTap
        => DOMAIN buckets_ \subseteq {BucketKey("touch", RouterSession)}
    /\ (/\ command # TouchTap
        /\ RateCategory(command) # "none"
        /\ validate_command(command) = "true")
        => BucketKey("touch", RouterSession) \notin DOMAIN buckets_
    /\ LET r == route_to_device(buckets_, rate_limiter_, RouterSession, command,
                                steady_clock)
       IN  /\ buckets_' = r.buckets
           /\ last' = [op |-> "route_to_device", conn |-> NoConn, arg |-> command,
                       ret |-> Ending(r, command)]
    /\ burst' = IF rate_limiter_ /\ command = TouchTap THEN burst + 1 ELSE burst
    /\ UNCHANGED <<rate_limiter_, steady_clock, grants>>
    /\ UNCHANGED <<connections_, opened, stuck, build, sessions_, next_session, closed_ids,
                   registry_set, devices_, jwt_manager_, issued, now, sent>>
    /\ UNCHANGED <<stream_vars, order_vars, standalone_vars>>

TickRouter == TickSteady({10}, MaxRouterClock) /\ now' = now

NextRouter ==
    \/ \E limiter_set \in BOOLEAN : SetRateLimiter(limiter_set)
    \/ \E command \in RouterCommands : RouteToDevice(command)
    \/ TickRouter

SpecRouter == InitLimiterSpec /\ [][NextRouter]_vars

\* C29: route_to_device returns the ERR_RATE_LIMIT error, and not the command,
\* for a valid command whose category bucket of the session has no token left
\* after its refill; and with a rate limiter just handed over and the clock
\* standing still, touch command number n returns the serialized command when
\* n <= 100 and the error when n = 101.
C29_RateLimitedCommandRejected ==
    [][(last'.op = "route_to_device" /\ steady_clock' = steady_clock)
        => LET command == last'.arg
               category == RateCategory(command)
           IN  /\ (/\ rate_limiter_
                   /\ validate_command(command) = "true"
                   /\ category # "none"
                   /\ BucketKey(category, RouterSession) \in DOMAIN buckets_
                   /\ refill_bucket(buckets_[BucketKey(category, RouterSession)],
                                    steady_clock).tokens < TOKEN)
                    => last'.ret = "ERR_RATE_LIMIT"
               /\ (rate_limiter_ /\ command = TouchTap /\ steady_clock = 0)
                    => last'.ret = IF burst' <= TOUCH_MAX THEN "command"
                                   ELSE "ERR_RATE_LIMIT"]_vars

\* C29 witness: touch command 101 of a burst was answered with ERR_RATE_LIMIT.
C29_Touch101Rejected ==
    /\ last.op = "route_to_device"
    /\ last.arg = TouchTap
    /\ last.ret = "ERR_RATE_LIMIT"
    /\ burst = TOUCH_MAX + 1
    /\ steady_clock = 0

\* C30: for a command that validate_command refuses, route_to_device returns
\* the empty string and no bucket of the rate limiter changes.
C30_InvalidCommandCostsNothing ==
    [][(/\ last'.op = "route_to_device"
        /\ steady_clock' = steady_clock
        /\ validate_command(last'.arg) = "false")
        => /\ last'.ret = "empty"
           /\ buckets_' = buckets_]_vars

\* C30 witness: a touch command without coordinates was refused while the
\* session's touch bucket, already drawn on, kept its tokens.
C30_InvalidTouchRefused ==
    /\ last.op = "route_to_device"
    /\ last.arg = [type |-> "touch", action |-> "tap"]
    /\ last.ret = "empty"
    /\ rate_limiter_
    /\ BucketKey("touch", RouterSession) \in DOMAIN buckets_
    /\ buckets_[BucketKey("touch", RouterSession)].tokens = (TOUCH_MAX - 1) * TOKEN

\* The replies with which handle_auth_request and handle_join_session reject.
Rejections == {"ERR_AUTH_FAILED", "INVALID_TOKEN", "SESSION_NOT_FOUND"}

\* C22: an auth_request or join_session that is rejected is answered with the
\* error on its own connection and changes nothing: the connection stays open
\* with the same role, session id and authentication state (an unauthenticated
\* one stays unauthenticated), no session is created and no session changes.
C22_RejectionChangesNothing ==
    [][(last'.op = "on_message" /\ last'.ret \in Rejections)
        => /\ last'.conn \in DOMAIN connections_'
           /\ connections_' = connections_
           /\ sessions_' = sessions_
           /\ next_session' = next_session
           /\ Len(sent') = 1
           /\ sent'[1].to = last'.conn
           /\ IsError(sent'[1].msg, last'.ret)]_vars

\* C22 witness: a join_session for a session that does not exist was rejected
\* on a connection that is still unauthenticated, while another session exists.
C22_JoinRejectedMayRetry ==
    /\ last.op = "on_message"
    /\ last.ret = "SESSION_NOT_FOUND"
    /\ last.conn \in DOMAIN connections_
    /\ ~connections_[last.conn].authenticated
    /\ sessions_ # <<>>

(***************************************************************************)
(* The auth-flood specification: one connection sends auth_request frames  *)
(* for device dev1, with the right or a wrong secret, faster than the auth *)
(* bucket of the device refills.                                           *)
(***************************************************************************)
FloodFrames ==
    {[type |-> "auth_request", device_id |-> "dev1", secret |-> "sec1"],
     [type |-> "auth_request", device_id |-> "dev1", secret |-> "wrong"]}

InitFlood ==
    /\ build \in [relock : RelockOutcomes, claim : ClaimModes]
    /\ registry_set = TRUE
    /\ devices_ = DefaultDevices
    /\ jwt_manager_ = JWTManager("your-secret-key-change-me", 24)
    /\ now = 0
    /\ connections_ = (1 :> NewConnection(1, 0))
    /\ opened = {1}
    /\ stuck = FALSE
    /\ sessions_ = <<>>
    /\ next_session = 1
    /\ closed_ids = {}
    /\ issued = {}
    /\ sent = <<>>
    /\ burst = 0
    /\ last = [op |-> "on_open", conn |-> 1, arg |-> NoFrame, ret |-> "opened"]
    /\ endpoints_ = <<>>
    /\ delivered = [c \in ConnIds |-> <<>>]
    /\ full_calls = 0
    /\ routed = 0
    /\ InitLimiter
    /\ InitOrder
    /\ InitStandalone

\* One more auth_request for dev1; burst counts them since the clock last advanced.
AuthAttempt ==
    /\ burst <= AUTH_MAX
    /\ \E frame \in FloodFrames : Receive(1, frame)
    /\ burst' = burst + 1
    /\ UNCHANGED <<order_vars, standalone_vars>>

TickFlood ==
    /\ Advance({1}, MaxNowBurst)
    /\ burst' = 0

NextFlood ==
    \/ AuthAttempt
    \/ TickFlood

SpecFlood == InitFlood /\ [][NextFlood]_vars

\* C23: an auth_request that finds the auth bucket of its device without a
\* token (the sixth within one instant) is answered with ERR_RATE_LIMIT, and
\* no session is created or changed.
C23_AuthRateLimited ==
    [][(burst' = burst + 1 /\ burst' > AUTH_MAX)
        => /\ Len(sent') = 1
           /\ IsError(sent'[1].msg, "ERR_RATE_LIMIT")
           /\ sessions_' = sessions_
           /\ next_session' = next_session]_vars

\* The frames of the model that are malformed JSON or lack a required field.
ProtocolErrorFrames ==
    {MalformedFrame}
    \cup {frame \in AuthFrames : frame.device_id = Absent \/ frame.secret = Absent}
    \cup {frame \in JoinFrames :
            frame.session_id = AbsentId \/ frame.jwt_token = AbsentToken}

\* C24: a text frame that is malformed JSON or lacks a required field, once
\* its handler has returned, has been answered on its connection with an
\* error of code INVALID_MESSAGE and has changed neither the connections nor
\* the sessions, whether the connection is authenticated or not.
C24_ProtocolErrorAnswered ==
    [][(/\ last'.op = "on_message"
        /\ last'.arg \in ProtocolErrorFrames
        /\ ~stuck')
        => /\ Len(sent') = 1
           /\ sent'[1].to = last'.conn
           /\ IsError(sent'[1].msg, "INVALID_MESSAGE")
           /\ connections_' = connections_
           /\ sessions_' = sessions_]_vars

(***************************************************************************)
(* The relay-order specification: the connections of the relay             *)
(* specification send command frames in any interleaving; each frame       *)
(* carries the number of its arrival, and the frames the server writes are *)
(* recorded in the order of the ws_server_.send calls.                     *)
(***************************************************************************)
\* The frame that arrives as number n.
Numbered(n) == [type |-> "status", battery |-> n]

\* ws_server_.send that puts a frame before the frames already written.
ws_send_in_front(wire, out) == out \o wire

\* ws_server_.send: the frames of one handler go on the wire after those written
\* before, in the order of the calls.
ws_send(wire, out) == wire \o out

RelayNumbered ==
    /\ Len(arrived) < MaxArrived
    /\ \E c \in RelayConns :
        /\ Receive(c, Numbered(Len(arrived) + 1))
        /\ arrived' = Append(arrived, [from |-> c, msg |-> Numbered(Len(arrived) + 1)])
    /\ relayed' = ws_send(relayed, sent')
    /\ UNCHANGED burst

NextOrder == RelayNumbered

SpecOrder == InitRelay /\ [][NextOrder]_vars

\* The frames written to `receiver` that arrived from `sender`, in write order.
RelayedBetween(sender, receiver) ==
    SelectSeq(relayed,
              LAMBDA e : /\ e.to = receiver
                         /\ \E i \in 1..Len(arrived) :
                                arrived[i] = [from |-> sender, msg |-> e.msg])

SensitiveFields == {"jwt_token", "secret", "password"}

\* C31: the sanitized copy of a routed command has the fields of the command,
\* "***" in jwt_token, secret and password where the command has them and the
\* command's value in every other field; sanitizing the copy again changes
\* nothing; and a command that is forwarded is forwarded as it came.
C31_SanitizeMasksCopyOnly ==
    last.op = "route_to_device"
        => LET command == last.arg
               copy == sanitize_command(command)
           IN  /\ DOMAIN copy = DOMAIN command
               /\ \A field \in DOMAIN command :
                    copy[field] = IF field \in SensitiveFields THEN "***"
                                  ELSE command[field]
               /\ sanitize_command(copy) = copy
               /\ last.ret \in {"exception", "empty", "ERR_RATE_LIMIT", "command"}

\* C31 witness: a command with a token, a secret and a password was forwarded.
C31_SecretsForwarded ==
    /\ last.op = "route_to_device"
    /\ SensitiveFields \subseteq DOMAIN last.arg
    /\ last.ret = "command"
    /\ sanitize_command(last.arg) # last.arg

(***************************************************************************)
(* The device-registry specification: callers register, authenticate, look *)
(* up and deactivate devices on a registry that starts empty.  Every       *)
(* method holds mutex_ from its first statement to its return, so calls    *)
(* from any number of threads run one after the other.                     *)
(***************************************************************************)
DeviceModels == {"Pixel 6", "Pixel 7"}

\* DeviceRegistry's constructor leaves devices_ empty.
InitRegistry ==
    /\ devices_ = <<>>
    /\ registry_set = TRUE
    /\ build \in [relock : {"proceed"}, claim : {"session"}]
    /\ jwt_manager_ = JWTManager("your-secret-key-change-me", 24)
    /\ now = 0
    /\ connections_ = <<>>
    /\ opened = {}
    /\ stuck = FALSE
    /\ sessions_ = <<>>
    /\ next_session = 1
    /\ closed_ids = {}
    /\ issued = {}
    /\ sent = <<>>
    /\ burst = 0
    /\ last = [op |-> "init", conn |-> NoConn, arg |-> NoFrame, ret |-> ""]
    /\ endpoints_ = <<>>
    /\ delivered = [c \in ConnIds |-> <<>>]
    /\ full_calls = 0
    /\ routed = 0
    /\ InitLimiter
    /\ InitOrder
    /\ InitStandalone

\* What a registry call leaves alone.
RegistryFrame ==
    UNCHANGED <<connections_, opened, stuck, build, sessions_, next_session, closed_ids,
                registry_set, jwt_manager_, issued, now, sent, burst,
                stream_vars, limiter_vars, order_vars, threads, client>>

RegisterDevice(device_id, device_secret, device_model) ==
    LET r == registry_register_device(devices_, device_id, device_secret, device_model, now)
    IN  /\ devices_' = r.devices
        /\ registry_log' =
              IF r.ret
              THEN [registry_log EXCEPT
                      !.stored[device_id] = Append(@, device_secret)]
              ELSE registry_log
        /\ last' = [op |-> "register_device", conn |-> NoConn,
                    arg |-> [device_id |-> device_id, device_secret |-> device_secret,
                             device_model |-> device_model],
                    ret |-> IF r.ret THEN "true" ELSE "false"]
        /\ RegistryFrame

Authenticate(device_id, device_secret) ==
    /\ last' = [op |-> "authenticate", conn |-> NoConn,
                arg |-> [device_id |-> device_id, device_secret |-> device_secret],
                ret |-> IF authenticate(devices_, device_id, device_secret)
                        THEN "true" ELSE "false"]
    /\ UNCHANGED <<devices_, registry_log>>
    /\ RegistryFrame

GetDevice(device_id) ==
    /\ last' = [op |-> "get_device", conn |-> NoConn,
                arg |-> [device_id |-> device_id],
                ret |-> IF get_device(devices_, device_id).has_value
                        THEN "entry" ELSE "nullopt"]
    /\ UNCHANGED <<devices_, registry_log>>
    /\ RegistryFrame

DeactivateDevice(device_id) ==
    LET r == deactivate_device(devices_, device_id)
    IN  /\ devices_' = r.devices
        /\ registry_log' =
              IF r.ret
              THEN [registry_log EXCEPT !.deactivated = @ \cup {device_id}]
              ELSE registry_log
        /\ last' = [op |-> "deactivate_device", conn |-> NoConn,
                    arg |-> [device_id |-> device_id],
                    ret |-> IF r.ret THEN "true" ELSE "false"]
        /\ RegistryFrame

NextRegistry ==
    \/ \E d \in DeviceIds, s \in Secrets, m \in DeviceModels : RegisterDevice(d, s, m)
    \/ \E d \in DeviceIds, s \in Secrets : Authenticate(d, s)
    \/ \E d \in DeviceIds : GetDevice(d)
    \/ \E d \in DeviceIds : DeactivateDevice(d)

SpecRegistry == InitRegistry /\ [][NextRegistry]_vars

\* The step is a call of `op` on the device registry.
RegistryCall(op) == last'.op = op /\ last' # last

\* C32: register_device succeeds at most once for a device id, whatever the
\* number and the order of the attempts and also after the device was
\* deactivated; and an attempt that fails leaves the stored entry (secret,
\* model, is_active and the rest) as it was.
C32_RegisterSucceedsOnce ==
    /\ [](\A d \in DeviceIds : Len(registry_log.stored[d]) <= 1)
    /\ [][last'.op = "register_device" /\ last'.ret = "false"
            => devices_' = devices_]_vars
    /\ [][last'.op = "register_device" /\ last'.ret = "true"
            => last'.arg.device_id \notin DOMAIN devices_]_vars

\* C32 witness: a registration with another secret was refused for a device
\* that was registered once and then deactivated.
C32_RefusedAfterDeactivation ==
    /\ last.op = "register_device"
    /\ last.ret = "false"
    /\ last.arg.device_id \in registry_log.deactivated
    /\ registry_log.stored[last.arg.device_id] # <<last.arg.device_secret>>
    /\ Len(registry_log.stored[last.arg.device_id]) = 1
    /\ ~devices_[last.arg.device_id].is_active

\* C33: authenticate(d, s) returns true exactly when d has an entry, the
\* entry is active and s is the secret of the one register_device that
\* succeeded for d; and authenticate changes nothing in the registry.
C33_AuthenticateIffActiveAndSecret ==
    /\ [](last.op = "authenticate"
            => LET d == last.arg.device_id
                   s == last.arg.device_secret
               IN  (last.ret = "true")
                     <=> /\ d \in DOMAIN devices_
                         /\ devices_[d].is_active
                         /\ registry_log.stored[d] = <<s>>)
    /\ [][RegistryCall("authenticate") => devices_' = devices_]_vars

\* C33 witness: authenticate accepted the secret a device was registered with.
C33_Authenticated ==
    /\ last.op = "authenticate"
    /\ last.ret = "true"
    /\ registry_log.stored[last.arg.device_id] = <<last.arg.device_secret>>

\* C34: deactivate_device(d) returns true exactly when d has an entry; from
\* then on authenticate(d, s) is false for every s, in every later state, and
\* get_device(d) still returns the entry, with is_active false.
C34_DeactivatedForGood ==
    /\ [](\A d \in registry_log.deactivated :
            /\ \A s \in Secrets : ~authenticate(devices_, d, s)
            /\ get_device(devices_, d).has_value
            /\ get_device(devices_, d).entry.device_id = d
            /\ ~get_device(devices_, d).entry.is_active)
    /\ [][RegistryCall("deactivate_device")
            => ((last'.ret = "true") <=> last'.arg.device_id \in DOMAIN devices_)]_vars
    /\ [](last.op = "authenticate" /\ last.arg.device_id \in registry_log.deactivated
            => last.ret = "false")

\* C34 witness: the registered secret was refused for a deactivated device,
\* after another registration for it was attempted.
C34_RefusedOnceDeactivated ==
    /\ last.op = "authenticate"
    /\ last.ret = "false"
    /\ last.arg.device_id \in registry_log.deactivated
    /\ registry_log.stored[last.arg.device_id] = <<last.arg.device_secret>>

(***************************************************************************)
(* The token specification: callers generate, validate and revoke tokens   *)
(* on one JWT manager while the clock advances.  The iat and exp claims    *)
(* are whole seconds, and the HS256 signature of given claims under a      *)
(* given key is always the same string: two generate_token calls with the  *)
(* same device, session and second return the same token.                  *)
(***************************************************************************)
MaxIssued == 2         \* distinct tokens generated during a run
MaxJwtTicks == 3       \* half token lifetimes the clock advances

\* A token another service signed with the manager's key under its own name.
ForeignIssuerToken ==
    [iss |-> "other-server", sub |-> "dev1", iat |-> 0, exp |-> 24 * 3600,
     session_id |-> 1, device_id |-> "dev1", sig |-> "your-secret-key-change-me"]

InitJwt ==
    /\ InitCommon
    /\ InitStandalone
    /\ build \in [relock : {"proceed"}, claim : {"session"}]
    /\ registry_set = TRUE

GenerateToken(device_id, session_id) ==
    LET token == generate_token(jwt_manager_, device_id, session_id, {}, now)
    IN  /\ Cardinality(issued \cup {token}) <= MaxIssued
        /\ issued' = issued \cup {token}
        /\ last' = [op |-> "generate_token", conn |-> NoConn,
                    arg |-> [jwt_token |-> token], ret |-> "token"]
        /\ UNCHANGED <<connections_, opened, stuck, build, sessions_, next_session,
                       closed_ids, registry_set, devices_, jwt_manager_, now, sent, burst>>
        /\ UNCHANGED <<stream_vars, limiter_vars, order_vars, standalone_vars>>

ValidateToken(token) ==
    /\ last' = [op |-> "validate_token", conn |-> NoConn,
                arg |-> [jwt_token |-> token],
                ret |-> IF validate_token(jwt_manager_, token, now).valid
                        THEN "payload" ELSE "nullopt"]
    /\ UNCHANGED <<connections_, opened, stuck, build, sessions_, next_session,
                   closed_ids, registry_set, devices_, jwt_manager_, issued, now, sent,
                   burst>>
    /\ UNCHANGED <<stream_vars, limiter_vars, order_vars, standalone_vars>>

\* system_clock moves on by half the lifetime of a token.
TickJwt ==
    /\ now < MaxJwtTicks * ((jwt_manager_.expiry_hours_ * 3600) \div 2)
    /\ now' = now + (jwt_manager_.expiry_hours_ * 3600) \div 2
    /\ UNCHANGED <<connections_, opened, stuck, build, sessions_, next_session,
                   closed_ids, registry_set, devices_, jwt_manager_, issued, sent, burst,
                   last>>
    /\ UNCHANGED <<stream_vars, limiter_vars, order_vars, standalone_vars>>

NextJwt ==
    \/ \E d \in DeviceIds, s \in SessionIds : GenerateToken(d, s)
    \/ \E token \in issued \cup {ForgedToken, GarbageToken, ForeignIssuerToken} :
          ValidateToken(token)
    \/ RevokeToken
    \/ TickJwt

SpecJwt == InitJwt /\ [][NextJwt]_vars

\* The step is a call of `op` on the JWT manager (the clock stands still
\* during a call, and only revoke_token changes the manager).
JwtCall(op) == last'.op = op /\ now' = now /\ jwt_manager_' = jwt_manager_

\* C35: validate_token, called on the manager that has just returned a token
\* from generate_token(d, s, p), returns a payload with device_id d and
\* session_id s.
C35_FreshTokenValidates ==
    [][JwtCall("generate_token")
        => LET token == last'.arg.jwt_token
               payload == validate_token(jwt_manager_', token, now')
           IN  /\ payload.valid
               /\ payload.device_id = token.device_id
               /\ payload.session_id = token.session_id]_vars

\* C36: validate_token returns a payload exactly when the signature verifies
\* under the manager's secret, the issuer is arcs-server, the clock is before
\* the token's expiry and the token is not revoked.
C36_ValidIffBeforeExpiry ==
    [][JwtCall("validate_token")
        => LET token == last'.arg.jwt_token
           IN  (last'.ret = "payload")
                 <=> /\ token.sig = jwt_manager_.secret_
                     /\ token.iss = ISSUER
                     /\ now < token.exp
                     /\ token \notin jwt_manager_.revoked_tokens_]_vars

\* C37: no on_message blocks for ever on connections_mutex_: whatever frame a
\* connection sends, the handler returns and the I/O thread goes on to the
\* next frame.
C37_OnMessageReturns == ~stuck

\* C39: at most one open authenticated device connection is bound to a
\* session, and no step removes a session from the registry while an open
\* device connection that stays open is bound to it.
C39_OneDevicePerSession ==
    /\ [](\A s \in SessionIds : Cardinality(DeviceConns(s)) <= 1)
    /\ [][\A s \in DOMAIN sessions_ \ DOMAIN sessions_' :
            \A id \in DeviceConns(s) : id \notin DOMAIN connections_']_vars


(***************************************************************************)
(* The locking specification of the stream router: threads call its        *)
(* methods at the same time.  A method is the steps in which it locks a    *)
(* mutex, one step for each, and the step in which it does its work and    *)
(* returns, when the lock_guards release what they hold, the last taken    *)
(* first.  A lock step waits while another thread holds the mutex.         *)
(***************************************************************************)
MaxCalls == 3          \* calls of stream router methods during a run

\* StreamRouter::mutex_, which guards the endpoint map.
RouterMutex == [name |-> "mutex_", session_id |-> NoSessionId]

\* StreamEndpoint::mutex of the endpoint of session s.
EndpointMutex(s) == [name |-> "mutex", session_id |-> s]

RouterMethods ==
    {"register_device", "register_controller", "route_frame", "get_frame",
     "unregister_device", "unregister_controller", "get_stats"}

\* get_stats that locks the endpoint it reads before the endpoint map.
acquires_stats_inner_first(op, E, session_id) ==
    IF op \in {"register_device", "unregister_device"}
    THEN <<RouterMutex>>
    ELSE IF session_id \in DOMAIN E
    THEN IF op = "get_stats"
         THEN <<EndpointMutex(session_id), RouterMutex>>
         ELSE <<RouterMutex, EndpointMutex(session_id)>>
    ELSE <<RouterMutex>>

\* The mutexes a method locks, in the order of its lock_guards: mutex_ in its
\* first statement and, in the methods that read or write an endpoint, the
\* mutex of the endpoint that find returned.  register_device and
\* unregister_device lock no endpoint.
acquires(op, E, session_id) ==
    IF op \in {"register_device", "unregister_device"}
    THEN <<RouterMutex>>
    ELSE IF session_id \in DOMAIN E
    THEN <<RouterMutex, EndpointMutex(session_id)>>
    ELSE <<RouterMutex>>

\* The threads that hold mutex m.
Holders(m) == {t \in ThreadIds : \E i \in 1..Len(threads[t].holds) : threads[t].holds[i] = m}

\* The lock_guards thread t has still to construct before the method's work.
Remaining(t) ==
    LET plan == acquires(threads[t].op, endpoints_, threads[t].session_id)
    IN  SubSeq(plan, Len(threads[t].holds) + 1, Len(plan))

CallsMade == threads["t1"].calls + threads["t2"].calls

InitLocks ==
    /\ InitServer
    /\ build = [relock |-> "deadlock", claim |-> "session"]
    /\ registry_set = TRUE
    /\ endpoints_ = <<>>
    /\ delivered = [c \in ConnIds |-> <<>>]
    /\ full_calls = 0
    /\ routed = 0
    /\ InitLimiter
    /\ InitOrder
    /\ InitStandalone

\* Thread t enters a method of the stream router.
Call(t, op, s, c) ==
    /\ threads[t].pc = "idle"
    /\ CallsMade < MaxCalls
    /\ threads' = [threads EXCEPT ![t] =
                      [op |-> op, session_id |-> s, controller_id |-> c,
                       pc |-> "locking", holds |-> <<>>, calls |-> @.calls + 1]]
    /\ UNCHANGED <<stream_vars, server_vars, limiter_vars, order_vars, registry_log, client>>

\* std::lock_guard's constructor: the thread takes the next mutex of the method
\* once no thread holds it.
Lock(t) ==
    /\ threads[t].pc = "locking"
    /\ Remaining(t) # <<>>
    /\ Holders(Head(Remaining(t))) = {}
    /\ threads' = [threads EXCEPT ![t].holds = Append(@, Head(Remaining(t)))]
    /\ UNCHANGED <<stream_vars, server_vars, limiter_vars, order_vars, registry_log, client>>

\* The work of the method under the locks it took, and its return.
Return(t) ==
    LET op == threads[t].op
        s == threads[t].session_id
        c == threads[t].controller_id
        r == get_frame(endpoints_, s, c)
    IN  /\ threads[t].pc = "locking"
        /\ Remaining(t) = <<>>
        /\ endpoints_' =
              CASE op = "register_device" -> register_device(endpoints_, s, "dev1")
                [] op = "register_controller" -> register_controller(endpoints_, s, c)
                [] op = "route_frame" -> route_frame(endpoints_, s, NextFrame(endpoints_, s))
                [] op = "get_frame" -> r.endpoints
                [] op = "unregister_device" -> unregister_device(endpoints_, s)
                [] op = "unregister_controller" -> unregister_controller(endpoints_, s, c)
                [] op = "get_stats" -> endpoints_
        /\ delivered' = IF op = "get_frame" /\ r.ok
                        THEN [delivered EXCEPT ![c] = Append(@, r.out_data)]
                        ELSE delivered
        /\ full_calls' = IF op = "route_frame" /\ MeetsFullQueue(endpoints_, s)
                         THEN full_calls + 1 ELSE full_calls
        /\ routed' = IF op = "route_frame" THEN routed + 1 ELSE routed
        /\ threads' = [threads EXCEPT ![t].pc = "idle", ![t].holds = <<>>]
        /\ UNCHANGED <<server_vars, limiter_vars, order_vars, registry_log, client>>

NextLocks ==
    \/ \E t \in ThreadIds, op \in RouterMethods, s \in SessionIds, c \in {1} :
          Call(t, op, s, c)
    \/ \E t \in ThreadIds : Lock(t)
    \/ \E t \in ThreadIds : Return(t)

SpecLocks == InitLocks /\ [][NextLocks]_vars

\* Thread t waits in a lock_guard constructor for a mutex another thread holds.
WaitsFor(t, u) ==
    /\ threads[t].pc = "locking"
    /\ Remaining(t) # <<>>
    /\ u \in Holders(Head(Remaining(t)))

\* C38: a thread inside the stream router holds nothing, or mutex_ alone, or
\* mutex_ and then the mutex of one endpoint: it never takes mutex_ while it
\* holds an endpoint's mutex; and the threads are never deadlocked, each of a
\* set of them waiting for a mutex that a thread of the set holds.
C38_OuterBeforeInner ==
    /\ \A t \in ThreadIds :
          \/ threads[t].holds = <<>>
          \/ threads[t].holds = <<RouterMutex>>
          \/ threads[t].holds = <<RouterMutex, EndpointMutex(threads[t].session_id)>>
    /\ \A m \in {RouterMutex} \cup {EndpointMutex(s) : s \in SessionIds} :
          Cardinality(Holders(m)) <= 1
    /\ ~\E T \in SUBSET ThreadIds \ {{}} :
          \A t \in T : \E u \in T : WaitsFor(t, u)

\* C38 witness: a thread works on an endpoint under both mutexes while
\* another thread, in a call for the same session, waits for mutex_.
C38_ContendedCall ==
    \E t, u \in ThreadIds :
        /\ threads[t].holds = <<RouterMutex, EndpointMutex(threads[t].session_id)>>
        /\ WaitsFor(u, t)
        /\ threads[u].session_id = threads[t].session_id
        /\ threads[u].op \notin {"register_device", "unregister_device"}

(***************************************************************************)
(* The controller client (pc-controller, websocket_client.cpp).  The       *)
(* window connects the client to a server; the websocketpp thread calls    *)
(* onOpen, onFail, onMessage and onClose; the user's input calls the send  *)
(* methods.  The peer is any WebSocket server: it may send any text frame  *)
(* at any time.                                                            *)
(***************************************************************************)
MaxWritten == 2        \* frames the client writes to its transport during a run

ClientSessions == {"session-a", "session-b"}

\* The text frames a server can send: the two join responses, one without the
\* success field, an error, a frame the client has no branch for and a text
\* that is not JSON.
ServerFrames ==
    {[type |-> "join_response", success |-> TRUE],
     [type |-> "join_response", success |-> FALSE],
     [type |-> "join_response"],
     [type |-> "error", message |-> "Session not found"],
     [type |-> "pong"],
     [raw |-> "not json"]}

\* sendMessage: returns at once while isConnected_ is false, and writes the
\* dump of the message to the transport otherwise.
sendMessage(c, msg) ==
    IF ~c.isConnected_
    THEN c
    ELSE [c EXCEPT !.written = Append(@, msg)]

\* The client after handleJsonMessage on one text frame; an exception of
\* json::parse or of a conversion is caught and changes nothing.
handleJsonMessage(c, msg) ==
    IF "raw" \in DOMAIN msg \/ "type" \notin DOMAIN msg
    THEN c
    ELSE IF msg.type = "join_response"
    THEN IF "success" \notin DOMAIN msg
         THEN c
         ELSE IF msg.success
         THEN [c EXCEPT !.isConnected_ = TRUE, !.signals = @ \cup {"connected"}]
         ELSE [c EXCEPT !.signals = @ \cup {"errorOccurred"}]
    ELSE IF msg.type = "error"
    THEN [c EXCEPT !.signals = @ \cup {"errorOccurred"}]
    ELSE c

InitClient ==
    /\ InitServer
    /\ build = [relock |-> "deadlock", claim |-> "session"]
    /\ registry_set = TRUE
    /\ endpoints_ = <<>>
    /\ delivered = [c \in ConnIds |-> <<>>]
    /\ full_calls = 0
    /\ routed = 0
    /\ InitLimiter
    /\ InitOrder
    /\ InitStandalone

\* What a step of the client leaves alone, but for `last`.
ClientFrame ==
    UNCHANGED <<connections_, opened, stuck, build, sessions_, next_session, closed_ids,
                registry_set, devices_, jwt_manager_, issued, now, sent, burst,
                stream_vars, limiter_vars, order_vars, registry_log, threads>>

ClientStep(op, arg, ret) ==
    /\ last' = [op |-> op, conn |-> NoConn, arg |-> arg, ret |-> ret]
    /\ ClientFrame

\* The window connects once no transport of the client is open or opening.
connectToServer(sessionId) ==
    /\ client.transport \in {"none", "closed"}
    /\ client' = [client EXCEPT !.sessionId_ = sessionId, !.transport = "connecting"]
    /\ ClientStep("connectToServer", NoFrame, "connecting")

\* The join_session message onOpen builds.
joinMsg(c) ==
    [type |-> "join_session", session_id |-> c.sessionId_, jwt_token |-> c.jwtToken_]

onOpen ==
    /\ client.transport = "connecting"
    /\ client' = sendMessage([client EXCEPT !.transport = "open"], joinMsg(client))
    /\ ClientStep("onOpen", joinMsg(client),
                  IF client'.written # client.written THEN "written" ELSE "dropped")

onFail ==
    /\ client.transport = "connecting"
    /\ client' = [client EXCEPT !.transport = "closed",
                                !.signals = @ \cup {"errorOccurred"}]
    /\ ClientStep("onFail", NoFrame, "failed")

\* A text frame arrives (a binary frame goes to the video decoder and leaves
\* the client as it is).
onMessage(msg) ==
    /\ client.transport = "open"
    /\ client' = handleJsonMessage(client, msg)
    /\ ClientStep("onMessage", msg, "handled")

\* sendTouchCommand, sendKeyCommand and sendSystemCommand: each builds its
\* command and hands it to sendMessage.
sendCommand(cmd) ==
    /\ Len(client.written) < MaxWritten
    /\ client' = sendMessage(client, cmd)
    /\ ClientStep("sendCommand", cmd,
                  IF client'.written # client.written THEN "written" ELSE "dropped")

disconnect ==
    /\ client' = IF client.isConnected_
                 THEN [client EXCEPT !.isConnected_ = FALSE, !.transport = "closed"]
                 ELSE client
    /\ ClientStep("disconnect", NoFrame, "done")

\* The peer closes the connection.
onClose ==
    /\ client.transport = "open"
    /\ client' = [client EXCEPT !.isConnected_ = FALSE, !.transport = "closed",
                                !.signals = @ \cup {"disconnected"}]
    /\ ClientStep("onClose", NoFrame, "closed")

ClientCommands ==
    {TouchTap,
     [type |-> "key", action |-> "press", keycode |-> 4],
     [type |-> "system", action |-> "home"]}

NextClient ==
    \/ \E sessionId \in ClientSessions : connectToServer(sessionId)
    \/ onOpen
    \/ onFail
    \/ \E msg \in ServerFrames : onMessage(msg)
    \/ \E cmd \in ClientCommands : sendCommand(cmd)
    \/ disconnect
    \/ onClose

SpecClient == InitClient /\ [][NextClient]_vars

\* C40: once the transport of the controller client has opened, the
\* join_session message with the client's session id and token has been
\* written to it (onOpen is the one place that sends it, and it returns before
\* any other handler runs); and a frame the client hands to sendMessage while
\* it is connected is written.
C40_JoinSentOnOpen ==
    /\ client.transport = "open"
          => \E i \in 1..Len(client.written) : client.written[i] = joinMsg(client)
    /\ last.op = "onOpen" => last.ret = "written"
====
